---- MODULE Spec2Model ----
(***************************************************************************)
(* Linked selection controller of the exploratory-vis VisualizationTab and *)
(* the aggregation functions of the deceptive-viz data exploration page.   *)
(*                                                                         *)
(* JavaScript strings are sequences of one-character strings, so that      *)
(* trim, sort, join and Number are computed and not assumed.               *)
(***************************************************************************)
EXTENDS Integers, Sequences, FiniteSets, TLC

VARIABLES
    starYearMin,            \* useState(2000)
    starYearMax,            \* useState(2020)
    starMinConnectionSize,  \* useState(1)
    selectedConnection,     \* useState(null): Null or [actorA, actorB]
    selectedMovie,          \* useState(null): Null or a Series_Title
    posterSortBy,           \* useState('imdb')
    connRange,              \* useMemo: getConnectionCountRange of the last render
    starChordData,          \* useMemo: computeStarCooccurrenceMatrix of the last render
    lastOp,                 \* history: the handler that ran last, with its arguments
    preSel,                 \* history: the selection that handler started from
    corrRows,               \* rows handed to computeCorrelationMatrix
    corrColumns,            \* allColumns handed to computeCorrelationMatrix
    corrResult,             \* its result, or NotComputed
    xs,                     \* x handed to covariance, pearsonCorrelation, linearRegression
    ys,                     \* y handed to them
    statResult,             \* what the called function returned, or NotComputed
    lineRows,               \* rows handed to computeLineSeries
    genreColumns,           \* genreColumns handed to it
    lineMetric,             \* useState('imdb'): 'imdb' or 'meta'
    lineSeries,             \* useMemo: computeLineSeries of them, or NotComputed
    gapRows,                \* rows handed to computeDisagreementByYear / ByGenre
    gapResult,              \* what the called function returned, or NotComputed
    colRows,                \* rows handed to computeColumnStats
    colColumns,             \* columns handed to computeColumnStats
    colStats,               \* what computeColumnStats returned, or NotComputed
    lineVisible,            \* DataExplorationTab: useState(new Set(['All']))
    svgPaths,               \* the series paths the line chart's svg holds
    scatterUseTimeline,     \* useState(false)
    scatterShowAllMovies,   \* useState(false)
    scatterSelectedYear,    \* useState(2020)
    tabOp,                  \* history: the handler that ran last
    lineTip,                \* the tooltip group of the line chart
    scatterTip,             \* the tooltip group of the scatter
    tipEvent                \* history: the pointer event delivered last

selVars == <<starYearMin, starYearMax, starMinConnectionSize, selectedConnection,
             selectedMovie, posterSortBy, connRange, starChordData, lastOp, preSel>>
corrVars == <<corrRows, corrColumns, corrResult>>
statVars == <<xs, ys, statResult>>
lineVars == <<lineRows, genreColumns, lineMetric, lineSeries>>
gapVars == <<gapRows, gapResult>>
colVars == <<colRows, colColumns, colStats>>
tabVars == <<lineVisible, svgPaths, scatterUseTimeline, scatterShowAllMovies,
             scatterSelectedYear, tabOp>>
tipVars == <<lineTip, scatterTip, tipEvent>>
vars == <<selVars, corrVars, statVars, lineVars, gapVars, colVars, tabVars, tipVars>>

-----------------------------------------------------------------------------
(* JavaScript values *)

Null == [isNull |-> TRUE]
\* a string held where null may be held too
Str(s) == [str |-> s]
NaN == [nan |-> TRUE, val |-> 0]
Num(v) == [nan |-> FALSE, val |-> v]

Max(a, b) == IF a >= b THEN a ELSE b
Min(a, b) == IF a <= b THEN a ELSE b

\* UTF-16 code units of the characters the model's strings use
CodeUnits ==
    " " :> 32 @@ "," :> 44 @@ "0" :> 48 @@ "1" :> 49 @@ "2" :> 50 @@ "3" :> 51 @@
    "4" :> 52 @@ "5" :> 53 @@ "6" :> 54 @@ "7" :> 55 @@ "8" :> 56 @@ "9" :> 57 @@
    "A" :> 65 @@ "B" :> 66 @@ "C" :> 67 @@ "D" :> 68 @@ "G" :> 71 @@ "M" :> 77 @@
    "P" :> 80 @@ "|" :> 124

Ord(ch) == CodeUnits[ch]

IsDigit(ch) == ch \in {"0", "1", "2", "3", "4", "5", "6", "7", "8", "9"}

RECURSIVE TrimStart(_)
TrimStart(s) == IF s # <<>> /\ Head(s) = " " THEN TrimStart(Tail(s)) ELSE s

RECURSIVE TrimEnd(_)
TrimEnd(s) ==
    IF s # <<>> /\ s[Len(s)] = " " THEN TrimEnd(SubSeq(s, 1, Len(s) - 1)) ELSE s

\* String.prototype.trim
Trim(s) == TrimEnd(TrimStart(s))

RECURSIVE DigitsValue(_)
DigitsValue(s) ==
    IF s = <<>> THEN 0
    ELSE 10 * DigitsValue(SubSeq(s, 1, Len(s) - 1)) + (Ord(s[Len(s)]) - 48)

NumberOfTrimmed(t) ==
    IF t = <<>> THEN Num(0)
    ELSE IF \A i \in DOMAIN t : IsDigit(t[i]) THEN Num(DigitsValue(t))
    ELSE NaN

\* Number(string) on the strings of the model: whitespace is trimmed, the empty
\* string is 0, a run of digits is its value, anything else is NaN
Number(s) == NumberOfTrimmed(Trim(s))

\* Number(text) || fallback
OrFallback(n, fallback) == IF n.nan \/ n.val = 0 THEN fallback ELSE n.val
NumberOr(text, fallback) == OrFallback(Number(text), fallback)

\* a < b in the order Array.prototype.sort() uses by default (code units)
RECURSIVE StrLess(_, _)
StrLess(a, b) ==
    IF b = <<>> THEN FALSE
    ELSE IF a = <<>> THEN TRUE
    ELSE IF Head(a) # Head(b) THEN Ord(Head(a)) < Ord(Head(b))
    ELSE StrLess(Tail(a), Tail(b))

\* [a, b].sort()
SortPair(a, b) == IF StrLess(b, a) THEN <<b, a>> ELSE <<a, b>>

\* array.join('|') of a two-element array
JoinBar(p) == p[1] \o <<"|">> \o p[2]

\* [a, b].join('|') without the sort: what a forgotten sort would compute
JoinUnsorted(a, b) == JoinBar(<<a, b>>)

\* [a, b].sort().join('|')
ConnectionKey(a, b) == JoinBar(SortPair(a, b))

-----------------------------------------------------------------------------
(* The dataset handed over by the route loader *)

Movie(title, year, s1, s2, s3, s4, imdb, meta) ==
    [Series_Title |-> title, Released_Year |-> year,
     Star1 |-> s1, Star2 |-> s2, Star3 |-> s3, Star4 |-> s4,
     IMDB_Rating |-> imdb, Meta_score |-> meta]

\* five records: the pair A-B shares M1 and M4 (where B is written with a
\* leading blank), M5 has no numeric year and never passes the year filter
rows ==
    << Movie(<<"M","1">>, <<"2","0","0","1">>, <<"A">>, <<"B">>, <<>>, <<>>,
             <<"9">>, <<"8","0">>),
       Movie(<<"M","2">>, <<"2","0","0","5">>, <<"A">>, <<"C">>, <<>>, <<>>,
             <<"8">>, <<"9","0">>),
       Movie(<<"M","3">>, <<"2","0","0","1">>, <<"B">>, <<"C">>, <<>>, <<>>,
             <<"7">>, <<>>),
       Movie(<<"M","4">>, <<"2","0","0","5">>, <<"A">>, <<" ","B">>, <<" ">>, <<>>,
             <<"8">>, <<"7","0">>),
       Movie(<<"M","5">>, <<"P","G">>, <<"C">>, <<"D">>, <<>>, <<>>,
             <<>>, <<"6","0">>) >>

\* what the user can type into the two year inputs
YearInputs == { <<>>, <<"2","0","0","1">>, <<"2","0","0","5">> }

SortKeys == {"title", "year", "imdb", "meta"}

-----------------------------------------------------------------------------
(* -exploration-charts: the co-occurrence computation *)

\* the trimmed, non-empty Star1..Star4 of a record
Participants(row) ==
    { Trim(s) : s \in {row.Star1, row.Star2, row.Star3, row.Star4} } \ {<<>>}

YearWithin(y, yearMin, yearMax) == ~y.nan /\ y.val >= yearMin /\ y.val <= yearMax

InYearRange(row, yearMin, yearMax) ==
    YearWithin(Number(row.Released_Year), yearMin, yearMax)

Titles(rs) == [i \in DOMAIN rs |-> rs[i].Series_Title]

\* step 1: the records that pass the year filter
ActiveRows(rs, yearMin, yearMax) ==
    SelectSeq(rs, LAMBDA r : InYearRange(r, yearMin, yearMax))

\* the ids of the records of act in which a and b are both listed
ContributingIds(act, a, b) ==
    Titles(SelectSeq(act, LAMBDA r : {a, b} \subseteq Participants(r)))

PairsAmong(act, names) ==
    { p \in names \X names :
        StrLess(p[1], p[2]) /\ \E i \in DOMAIN act : {p[1], p[2]} \subseteq Participants(act[i]) }

\* steps 2 and 3: every unordered pair of co-listed participants, as
\* <<smaller, larger>>, with the ids of the records that list both
PairIds(act) ==
    [ p \in PairsAmong(act, UNION { Participants(act[i]) : i \in DOMAIN act }) |->
        ContributingIds(act, p[1], p[2]) ]

RECURSIVE SumOver(_, _)
SumOver(S, f) ==
    IF S = {} THEN 0
    ELSE LET x == CHOOSE y \in S : TRUE IN f[x] + SumOver(S \ {x}, f)

IncidentLinks(links, n) == { l \in links : l.source = n \/ l.target = n }

\* step 5: the nodes of a set of links, each with the sum of its links' weights
NodesOf(links) ==
    { [name |-> n,
       total |-> SumOver(IncidentLinks(links, n),
                         [l \in IncidentLinks(links, n) |-> l.value])] :
      n \in { l.source : l \in links } \cup { l.target : l \in links } }

\* a step 4 that hides nothing
EveryPair(ids, minConnectionSize) == DOMAIN ids

\* step 4: the pairs whose weight reaches the minimum
KeptPairs(ids, minConnectionSize) ==
    { p \in DOMAIN ids : Len(ids[p]) >= minConnectionSize }

LinksOf(ids, kept) ==
    { [source |-> p[1], target |-> p[2], value |-> Len(ids[p])] : p \in kept }

ConnectionMoviesOf(ids, kept) ==
    [ k \in { ConnectionKey(p[1], p[2]) : p \in kept } |->
        ids[CHOOSE q \in kept : ConnectionKey(q[1], q[2]) = k] ]

ChordData(links, connectionMovies, allFilteredMovieIds) ==
    [ nodes |-> NodesOf(links),
      links |-> links,
      connectionMovies |-> connectionMovies,
      allFilteredMovieIds |-> allFilteredMovieIds ]

CooccurrenceOf(act, ids, kept) ==
    ChordData(LinksOf(ids, kept), ConnectionMoviesOf(ids, kept), Titles(act))

CooccurrenceAmong(act, ids, minConnectionSize) ==
    CooccurrenceOf(act, ids, KeptPairs(ids, minConnectionSize))

CooccurrenceOfActive(act, minConnectionSize) ==
    CooccurrenceAmong(act, PairIds(act), minConnectionSize)

computeStarCooccurrenceMatrix(rs, yearMin, yearMax, minConnectionSize) ==
    CooccurrenceOfActive(ActiveRows(rs, yearMin, yearMax), minConnectionSize)

LargestCount(counts) ==
    IF counts = {} THEN 1 ELSE CHOOSE c \in counts : \A d \in counts : d <= c

CountRangeOf(ids) ==
    [ min |-> 1, max |-> LargestCount({ Len(ids[p]) : p \in DOMAIN ids }) ]

\* the range of the slider: 1 up to the largest number of shared records
getConnectionCountRange(rs, yearMin, yearMax) ==
    CountRangeOf(PairIds(ActiveRows(rs, yearMin, yearMax)))

\* the links of the chord data that join two of the given actors
LinksAmong(links, actors) ==
    { l \in links : l.source \in actors /\ l.target \in actors }

\* the chord data re-scoped to a set of actors
filterChordDataByActors(data, actors) ==
    ChordData(LinksAmong(data.links, actors), data.connectionMovies,
              data.allFilteredMovieIds)

-----------------------------------------------------------------------------
(* VisualizationTab: what each render derives from the state *)

\* JavaScript truthiness of a string-or-null value
Truthy(x) == x # Null /\ x.str # <<>>

connMin == connRange.min
connMax == connRange.max

\* the slider state passed on as it is
rawMinConn == starMinConnectionSize

effectiveMinConn == Max(connMin, Min(connMax, starMinConnectionSize))

\* the two useMemo hooks, recomputed by the render that follows a change of
\* their dependencies
Render ==
    /\ connRange' = getConnectionCountRange(rows, starYearMin', starYearMax')
    /\ starChordData' =
           computeStarCooccurrenceMatrix(rows, starYearMin', starYearMax', effectiveMinConn')

LastIndexOf(id) ==
    CHOOSE i \in DOMAIN rows :
        /\ rows[i].Series_Title = id
        /\ \A j \in DOMAIN rows : rows[j].Series_Title = id => j <= i

\* Map of Series_Title -> row; rows without a title are skipped, a later row
\* with the same title replaces an earlier one
moviesById ==
    [ id \in { rows[i].Series_Title : i \in DOMAIN rows } \ {<<>>} |-> rows[LastIndexOf(id)] ]

\* moviesById.get(id), as a list: [m] or []
MovieIfKnown(id) == IF id \in DOMAIN moviesById THEN <<moviesById[id]>> ELSE <<>>

RECURSIVE LookupAll(_)
\* ids.map((id) => moviesById.get(id)).filter((m) => m != null)
LookupAll(ids) ==
    IF ids = <<>> THEN <<>> ELSE MovieIfKnown(Head(ids)) \o LookupAll(Tail(ids))

\* connectionMovies.get(key) ?? []
ConnectionMoviesGet(connectionMovies, key) ==
    IF key \in DOMAIN connectionMovies THEN connectionMovies[key] ELSE <<>>

\* displayMovies with the lookup key built without sorting the pair
DisplayMoviesUnsortedKey ==
    IF Truthy(selectedMovie)
    THEN MovieIfKnown(selectedMovie.str)
    ELSE LookupAll(
           IF selectedConnection # Null
           THEN ConnectionMoviesGet(starChordData.connectionMovies,
                    JoinUnsorted(selectedConnection.actorA, selectedConnection.actorB))
           ELSE starChordData.allFilteredMovieIds)

displayMovies ==
    IF Truthy(selectedMovie)
    THEN MovieIfKnown(selectedMovie.str)
    ELSE LookupAll(
           IF selectedConnection # Null
           THEN ConnectionMoviesGet(starChordData.connectionMovies,
                    ConnectionKey(selectedConnection.actorA, selectedConnection.actorB))
           ELSE starChordData.allFilteredMovieIds)

\* [row.Star1, ..., row.Star4] filtered for non-empty but not trimmed
UntrimmedStars(row) == {row.Star1, row.Star2, row.Star3, row.Star4} \ {<<>>}

\* chordDataToShow that re-scopes to the untrimmed Star1..Star4
ChordDataToShowUntrimmed ==
    IF Truthy(selectedMovie) /\ selectedMovie.str \in DOMAIN moviesById
    THEN filterChordDataByActors(starChordData, UntrimmedStars(moviesById[selectedMovie.str]))
    ELSE starChordData

chordDataToShow ==
    IF Truthy(selectedMovie) /\ selectedMovie.str \in DOMAIN moviesById
    THEN filterChordDataByActors(starChordData, Participants(moviesById[selectedMovie.str]))
    ELSE starChordData

\* the selectedConnection prop of StarChordChart
chordSelectedConnection == IF Truthy(selectedMovie) THEN Null ELSE selectedConnection

allMoviesForPanel == LookupAll(starChordData.allFilteredMovieIds)

TitleSet(ms) == { ms[i].Series_Title : i \in DOMAIN ms } \ {<<>>}

filteredMovieIds == TitleSet(displayMovies)

\* a 'Clear selection' button offered for a selected connection only
ClearButtonForConnectionOnly == selectedConnection # Null

\* the 'Clear selection' button is rendered
clearButtonShown == selectedConnection # Null \/ Truthy(selectedMovie)

\* the condition of the clamping effect
OutOfRange(v, lo, hi) == v < lo \/ v > hi
clampPending == OutOfRange(starMinConnectionSize, connMin, connMax)

-----------------------------------------------------------------------------
(* VisualizationTab: the event handlers *)

Selection == [connection |-> selectedConnection, movie |-> selectedMovie]

BothWays(links) ==
    { <<l.source, l.target>> : l \in links } \cup { <<l.target, l.source>> : l \in links }

\* the ribbons the chord chart offers for clicking, in either orientation
ClickableRibbons == BothWays(chordDataToShow.links)

\* the posters the panel offers for clicking
ClickableMovies == TitleSet(allMoviesForPanel)

\* the setSelectedConnection updater that compares the pairs as clicked
ToggleConnectionOrdered(prev, a, b) ==
    IF prev # Null /\ JoinUnsorted(a, b) = JoinUnsorted(prev.actorA, prev.actorB)
    THEN Null ELSE [actorA |-> a, actorB |-> b]

\* an updater that selects the clicked pair whatever the previous key was
SelectOnKeys(key, prevKey, a, b) == [actorA |-> a, actorB |-> b]

\* key === prevKey ? null : { actorA: a, actorB: b }
ToggleOnKeys(key, prevKey, a, b) ==
    IF key = prevKey THEN Null ELSE [actorA |-> a, actorB |-> b]

\* the setSelectedConnection updater of onConnectionClick
ToggleConnection(prev, a, b) ==
    ToggleOnKeys(ConnectionKey(a, b),
                 IF prev # Null THEN ConnectionKey(prev.actorA, prev.actorB) ELSE <<>>,
                 a, b)

\* a setSelectedMovie updater that never toggles off
ToggleMovieSticky(prev, id) == Str(id)

\* the setSelectedMovie updater of onMovieClick
ToggleMovie(prev, id) == IF prev = Str(id) THEN Null ELSE Str(id)

\* a click handler that leaves the other kind of selection in place
KeepOther(other) == other

\* setSelectedMovie(null) in onConnectionClick, setSelectedConnection(null) in onMovieClick
ClearOther(other) == Null

onConnectionClick(a, b) ==
    /\ ~clampPending
    /\ selectedMovie' = ClearOther(selectedMovie)
    /\ selectedConnection' = ToggleConnection(selectedConnection, a, b)
    /\ lastOp' = [op |-> "selectEdge", a |-> a, b |-> b]
    /\ preSel' = Selection
    /\ UNCHANGED <<starYearMin, starYearMax, starMinConnectionSize, posterSortBy,
                   connRange, starChordData>>

onMovieClick(id) ==
    /\ ~clampPending
    /\ selectedConnection' = ClearOther(selectedConnection)
    /\ selectedMovie' = ToggleMovie(selectedMovie, id)
    /\ lastOp' = [op |-> "selectRecord", id |-> id]
    /\ preSel' = Selection
    /\ UNCHANGED <<starYearMin, starYearMax, starMinConnectionSize, posterSortBy,
                   connRange, starChordData>>

\* the onClick of the 'Clear selection' button
ClearSelection ==
    /\ ~clampPending
    /\ clearButtonShown
    /\ selectedConnection' = Null
    /\ selectedMovie' = Null
    /\ lastOp' = [op |-> "clear"]
    /\ preSel' = Selection
    /\ UNCHANGED <<starYearMin, starYearMax, starMinConnectionSize, posterSortBy,
                   connRange, starChordData>>

\* a filter change that resets the selection
SelectionDropped ==
    /\ preSel' = Selection
    /\ selectedConnection' = Null
    /\ selectedMovie' = Null
    /\ UNCHANGED posterSortBy

\* what a filter change or the effect leaves alone
SelectionKept ==
    /\ preSel' = Selection
    /\ UNCHANGED <<selectedConnection, selectedMovie, posterSortBy>>

\* setStarYearMin(Number(e.target.value) || 1920), and the render after it
YearMinChange(text) ==
    /\ ~clampPending
    /\ starYearMin' = NumberOr(text, 1920)
    /\ UNCHANGED <<starYearMax, starMinConnectionSize>>
    /\ Render
    /\ lastOp' = [op |-> "yearMin"]
    /\ SelectionKept

\* setStarYearMax(Number(e.target.value) || 2024), and the render after it
YearMaxChange(text) ==
    /\ ~clampPending
    /\ starYearMax' = NumberOr(text, 2024)
    /\ UNCHANGED <<starYearMin, starMinConnectionSize>>
    /\ Render
    /\ lastOp' = [op |-> "yearMax"]
    /\ SelectionKept

\* setStarMinConnectionSize(Number(e.target.value)), and the render after it;
\* the range input only yields values between its min and max attributes
MinConnectionChange(v) ==
    /\ ~clampPending
    /\ starMinConnectionSize' = v
    /\ UNCHANGED <<starYearMin, starYearMax>>
    /\ Render
    /\ lastOp' = [op |-> "minConnection"]
    /\ SelectionKept

\* the useEffect that clamps the slider state, and the render after it; React
\* runs a due effect before it handles the next event
ClampEffect ==
    /\ clampPending
    /\ starMinConnectionSize' = Max(connMin, Min(connMax, starMinConnectionSize))
    /\ UNCHANGED <<starYearMin, starYearMax>>
    /\ Render
    /\ lastOp' = [op |-> "clamp"]
    /\ SelectionKept

onSortChange(s) ==
    /\ ~clampPending
    /\ posterSortBy' = s
    /\ lastOp' = [op |-> "sort"]
    /\ preSel' = Selection
    /\ UNCHANGED <<starYearMin, starYearMax, starMinConnectionSize,
                   selectedConnection, selectedMovie, connRange, starChordData>>

-----------------------------------------------------------------------------
(* deceptive-viz: the arithmetic of the statistics *)

RECURSIVE GCD(_, _)
GCD(a, b) == IF b = 0 THEN a ELSE GCD(b, a % b)

Abs(a) == IF a < 0 THEN -a ELSE a
Sign(a) == IF a < 0 THEN -1 ELSE IF a > 0 THEN 1 ELSE 0

ReduceBy(n, d, g) == [num |-> n \div g, den |-> d \div g]

\* the rational n/d (d > 0) in lowest terms
Rat(n, d) == ReduceBy(n, d, GCD(Abs(n), d))

\* A JS number is a binary floating-point value: every arithmetic result is
\* the exact result rounded to the nearest value with MantissaBits
\* significant bits, ties to even.  The values are kept as exact rationals.
\* (An IEEE double has 53 significant bits; the rounding rule is the same.)
MantissaBits == 5

Pow2(k) == 2 ^ k

One == Rat(1, 1)
Zero == Rat(0, 1)
\* 0 / 0
NaNNumber == [num |-> 0, den |-> 0]
\* c / 0 for c # 0
Infinity(sign) == [num |-> sign, den |-> 0]

IsFinite(r) == r.den > 0
WithinUnit(r) == IsFinite(r) /\ -r.den <= r.num /\ r.num <= r.den

\* m + 1 when the remainder r of a division by d is above one half, or is
\* one half and m is odd
NearestEven(m, r2, d) == IF r2 > d \/ (r2 = d /\ m % 2 = 1) THEN m + 1 ELSE m

\* a/d * un/ud for a, d > 0, rounded: a/d is first scaled into
\* [2^(MantissaBits-1), 2^MantissaBits)
RECURSIVE RoundScaled(_, _, _, _, _)
RoundScaled(sign, a, d, un, ud) ==
    IF a >= Pow2(MantissaBits) * d THEN RoundScaled(sign, a, 2 * d, 2 * un, ud)
    ELSE IF a < Pow2(MantissaBits - 1) * d THEN RoundScaled(sign, 2 * a, d, un, 2 * ud)
    ELSE Rat(sign * NearestEven(a \div d, 2 * (a % d), d) * un, ud)

RoundReduced(sign, q) == RoundScaled(sign, q.num, q.den, 1, 1)

\* the number nearest to n/d (d > 0)
Round(n, d) == IF n = 0 THEN Zero ELSE RoundReduced(Sign(n), Rat(Abs(n), d))

FromInt(v) == Round(v, 1)

Plus(x, y) == Round(x.num * y.den + y.num * x.den, x.den * y.den)
Minus(x, y) == Round(x.num * y.den - y.num * x.den, x.den * y.den)
Times(x, y) == Round(x.num * y.num, x.den * y.den)
Over(x, y) ==
    IF y.num = 0 THEN (IF x.num = 0 THEN NaNNumber ELSE Infinity(Sign(x.num)))
    ELSE Round(Sign(y.num) * x.num * y.den, x.den * Abs(y.num))

\* the integer part of sqrt(a/d), for a/d in [4^(MantissaBits-1), 4^MantissaBits)
FloorSqrt(a, d) ==
    CHOOSE m \in Pow2(MantissaBits - 1) .. Pow2(MantissaBits) - 1 :
        m * m * d <= a /\ a < (m + 1) * (m + 1) * d

\* m or m + 1, whichever is nearer to sqrt(a/d): (m + 1/2)^2 = (4mm + 4m + 1)/4
SqrtNearest(a, d, m) ==
    IF 4 * a > (4 * m * m + 4 * m + 1) * d THEN m + 1 ELSE m

RECURSIVE SqrtScaled(_, _, _, _)
SqrtScaled(a, d, un, ud) ==
    IF a >= Pow2(2 * MantissaBits) * d THEN SqrtScaled(a, 4 * d, 2 * un, ud)
    ELSE IF a < Pow2(2 * MantissaBits - 2) * d THEN SqrtScaled(4 * a, d, un, 2 * ud)
    ELSE Rat(SqrtNearest(a, d, FloorSqrt(a, d)) * un, ud)

\* Math.sqrt(x) for x >= 0
Sqrt(x) == IF x.num = 0 THEN Zero ELSE SqrtScaled(x.num, x.den, 1, 1)

\* Math.max(0, x)
Max0(x) == IF x.num < 0 THEN Zero ELSE x

\* x.reduce((a, b) => a + b, 0), from index i on with the sum so far
RECURSIVE ReduceAdd(_, _, _)
ReduceAdd(x, i, acc) ==
    IF i > Len(x) THEN acc ELSE ReduceAdd(x, i + 1, Plus(acc, FromInt(x[i])))

\* the loop sum += (x[i] - meanX) * (y[i] - meanY)
RECURSIVE CentredProducts(_, _, _, _, _, _, _)
CentredProducts(x, y, n, meanX, meanY, i, sum) ==
    IF i > n THEN sum
    ELSE CentredProducts(x, y, n, meanX, meanY, i + 1,
             Plus(sum, Times(Minus(FromInt(x[i]), meanX), Minus(FromInt(y[i]), meanY))))

CovarianceOf(x, y, n) ==
    IF n < 2 THEN Zero
    ELSE Over(CentredProducts(x, y, n,
                  Over(ReduceAdd(x, 1, Zero), FromInt(n)),
                  Over(ReduceAdd(y, 1, Zero), FromInt(n)), 1, Zero),
              FromInt(n - 1))

\* Sample covariance: sum((x - meanX)(y - meanY)) / (n - 1)
covariance(x, y) == CovarianceOf(x, y, Min(Len(x), Len(y)))

-----------------------------------------------------------------------------
(* deceptive-viz: the correlation matrix *)

NUMERIC_COLUMNS ==
    <<"Released_Year", "Runtime", "IMDB_Rating", "Meta_score", "No_of_Votes", "Gross">>

\* c.startsWith('is'), on the column names of the model
StartsWithIs(c) == c \in {"is", "isDrama", "isComedy"}

Absent == [present |-> FALSE, val |-> 0]
Present(v) == [present |-> TRUE, val |-> v]

\* number | null from a Number() result: NaN becomes null
NullIfNaN(n) == IF n.nan THEN Absent ELSE Present(n.val)

\* Number(...) || null: NaN and 0 become null
NullIfFalsy(n) == IF n.nan \/ n.val = 0 THEN Absent ELSE Present(n.val)

\* s.replace(/,/g, '')
WithoutCommas(s) == SelectSeq(s, LAMBDA ch : ch # ",")

RECURSIVE LeadingDigits(_)
LeadingDigits(s) ==
    IF s # <<>> /\ IsDigit(Head(s)) THEN <<Head(s)>> \o LeadingDigits(Tail(s)) ELSE <<>>

\* the text after the leading digits starts, after any blanks, with "min"
MinFollows(rest) == Len(rest) >= 3 /\ SubSeq(rest, 1, 3) \in {<<"m", "i", "n">>, <<"M", "I", "N">>}

RuntimeOfTrimmed(t, digits) ==
    IF digits # <<>> /\ MinFollows(TrimStart(SubSeq(t, Len(digits) + 1, Len(t))))
    THEN Present(DigitsValue(digits)) ELSE Absent

\* s.trim().match(/^(\d+)\s*min/i), for "min" written all in one case
parseRuntime(s) ==
    IF s = <<>> THEN Absent ELSE RuntimeOfTrimmed(Trim(s), LeadingDigits(Trim(s)))

parseGross(s) == IF s = <<>> THEN Absent ELSE NullIfNaN(Number(WithoutCommas(s)))

\* row[col]: undefined for a column the row does not have
HasCell(row, col) == col \in DOMAIN row

getNumericValue(row, col) ==
    IF ~HasCell(row, col) \/ row[col] = <<>> THEN Absent
    ELSE IF col = "Runtime" THEN parseRuntime(row[col])
    ELSE IF col = "Gross" THEN parseGross(row[col])
    ELSE IF col = "No_of_Votes" THEN NullIfFalsy(Number(WithoutCommas(row[col])))
    ELSE NullIfNaN(Number(row[col]))

\* one cell of data: 'true' is 1, 'false' is 0, anything else is parsed
CellValue(row, col) ==
    IF HasCell(row, col) /\ row[col] = <<"t", "r", "u", "e">> THEN Present(1)
    ELSE IF HasCell(row, col) /\ row[col] = <<"f", "a", "l", "s", "e">> THEN Present(0)
    ELSE getNumericValue(row, col)

Includes(list, c) == \E i \in DOMAIN list : list[i] = c

numericCols(allColumns) ==
    SelectSeq(NUMERIC_COLUMNS, LAMBDA c : Includes(allColumns, c))
      \o SelectSeq(allColumns, LAMBDA c : StartsWithIs(c))

DataOf(rs, colList) ==
    [ c \in DOMAIN colList |-> [ k \in DOMAIN rs |-> CellValue(rs[k], colList[c]) ] ]

\* the row indices at which both columns hold a value, ascending
RECURSIVE BothPresent(_, _, _)
BothPresent(di, dj, k) ==
    IF k > Len(di) THEN <<>>
    ELSE (IF di[k].present /\ dj[k].present THEN <<k>> ELSE <<>>) \o BothPresent(di, dj, k + 1)

ValuesAt(d, ks) == [ n \in DOMAIN ks |-> d[ks[n]].val ]

PairwiseCovariance(di, dj, ks) == covariance(ValuesAt(di, ks), ValuesAt(dj, ks))

covMatrix(data) ==
    [ i \in DOMAIN data |->
        [ j \in DOMAIN data |->
            PairwiseCovariance(data[i], data[j], BothPresent(data[i], data[j], 1)) ] ]

\* const std = colList.map((_, i) => Math.sqrt(Math.max(0, covMatrix[i][i])))
stdOf(cov) == [ i \in DOMAIN cov |-> Sqrt(Max0(cov[i][i])) ]

\* si < 1e-10: a positive value of the model has a denominator below 2^31,
\* so it is above 1e-10, and only 0 is below the threshold
StdBelowThreshold(si) == si.num <= 0

\* si < 1e-10 || sj < 1e-10
EitherDegenerate(si, sj) == StdBelowThreshold(si) \/ StdBelowThreshold(sj)

\* i === j ? 1 : 0
DegenerateEntry(i, j) == IF i = j THEN One ELSE Zero

\* covMatrix[i][j] / (si * sj)
OverStds(c, si, sj) == Over(c, Times(si, sj))

corrEntry(i, j, cov, std) ==
    IF EitherDegenerate(std[i], std[j]) THEN DegenerateEntry(i, j)
    ELSE OverStds(cov[i][j], std[i], std[j])

CorrMatrixOf(cov, std) ==
    [ i \in DOMAIN cov |-> [ j \in DOMAIN cov |-> corrEntry(i, j, cov, std) ] ]

corrMatrix(cov) == CorrMatrixOf(cov, stdOf(cov))

CorrelationOver(rs, colList) ==
    [ computed |-> TRUE,
      matrix |-> corrMatrix(covMatrix(DataOf(rs, colList))),
      columns |-> colList ]

computeCorrelationMatrix(rs, allColumns) == CorrelationOver(rs, numericCols(allColumns))

\* bound on the number of records handed to an aggregation function
MaxRows == 3

\* the cells a record of the model can hold; three times 11 is a sum that
\* needs more than MantissaBits bits, as large values do in a JS number
RatingCells == { <<>>, <<"0">>, <<"1">>, <<"2">>, <<"1", "1">> }
FlagCells == { <<>>, <<"t", "r", "u", "e">>, <<"f", "a", "l", "s", "e">> }
CorrRecords == [ IMDB_Rating : RatingCells, isDrama : FlagCells ]

\* the column lists the loader can hand over: the second names a column no
\* record has and a column that is not numeric, the third no numeric column
ColumnLists ==
    { <<"IMDB_Rating", "isDrama">>,
      <<"isDrama", "Genre", "Meta_score", "IMDB_Rating">>,
      <<"Genre">> }

SeqsUpTo(S, n) == UNION { [1 .. m -> S] : m \in 0 .. n }

NotComputed == [computed |-> FALSE]

InitCorr ==
    /\ corrRows \in SeqsUpTo(CorrRecords, MaxRows)
    /\ corrColumns \in ColumnLists
    /\ corrResult = NotComputed

\* const corrResult = useMemo(() => computeCorrelationMatrix(rows, columns), ...)
ComputeCorrelation ==
    /\ corrResult = NotComputed
    /\ corrResult' = computeCorrelationMatrix(corrRows, corrColumns)
    /\ UNCHANGED <<corrRows, corrColumns>>

-----------------------------------------------------------------------------
(* deceptive-viz: pearsonCorrelation and linearRegression *)

\* den < 1e-10: as for the standard deviation, only 0 is below the threshold
BelowThreshold(den) == den.num <= 0

\* the loop of pearsonCorrelation: num += dx * dy, denX += dx * dx, denY += dy * dy
RECURSIVE PearsonSums(_, _, _, _, _, _, _, _, _)
PearsonSums(x, y, n, meanX, meanY, i, num, denX, denY) ==
    IF i > n THEN [num |-> num, denX |-> denX, denY |-> denY]
    ELSE PearsonSums(x, y, n, meanX, meanY, i + 1,
             Plus(num, Times(Minus(FromInt(x[i]), meanX), Minus(FromInt(y[i]), meanY))),
             Plus(denX, Times(Minus(FromInt(x[i]), meanX), Minus(FromInt(x[i]), meanX))),
             Plus(denY, Times(Minus(FromInt(y[i]), meanY), Minus(FromInt(y[i]), meanY))))

\* the division without the guard on the denominator
QuotientUnguarded(num, den) == Over(num, den)

\* den < 1e-10 ? 0 : num / den
QuotientOrZero(num, den) == IF BelowThreshold(den) THEN Zero ELSE Over(num, den)

PearsonOfSums(sums) == QuotientOrZero(sums.num, Sqrt(Times(sums.denX, sums.denY)))

PearsonOf(x, y, n) ==
    IF n < 2 THEN Zero
    ELSE PearsonOfSums(PearsonSums(x, y, n,
             Over(ReduceAdd(x, 1, Zero), FromInt(n)),
             Over(ReduceAdd(y, 1, Zero), FromInt(n)), 1, Zero, Zero, Zero))

\* Pearson correlation coefficient
pearsonCorrelation(x, y) == PearsonOf(x, y, Min(Len(x), Len(y)))

\* the loop of linearRegression: num += dx * (y[i] - meanY), den += dx * dx
RECURSIVE RegressionSums(_, _, _, _, _, _, _, _)
RegressionSums(x, y, n, meanX, meanY, i, num, den) ==
    IF i > n THEN [num |-> num, den |-> den]
    ELSE RegressionSums(x, y, n, meanX, meanY, i + 1,
             Plus(num, Times(Minus(FromInt(x[i]), meanX), Minus(FromInt(y[i]), meanY))),
             Plus(den, Times(Minus(FromInt(x[i]), meanX), Minus(FromInt(x[i]), meanX))))

\* intercept = meanY - slope * meanX
LineThrough(slope, meanX, meanY) ==
    [slope |-> slope, intercept |-> Minus(meanY, Times(slope, meanX))]

RegressionOfSums(sums, meanX, meanY) ==
    LineThrough(QuotientOrZero(sums.num, sums.den), meanX, meanY)

RegressionWithMeans(x, y, n, meanX, meanY) ==
    RegressionOfSums(RegressionSums(x, y, n, meanX, meanY, 1, Zero, Zero), meanX, meanY)

RegressionOf(x, y, n) ==
    IF n < 2 THEN [slope |-> Zero, intercept |-> Zero]
    ELSE RegressionWithMeans(x, y, n,
             Over(ReduceAdd(x, 1, Zero), FromInt(n)),
             Over(ReduceAdd(y, 1, Zero), FromInt(n)))

\* Linear regression y = slope * x + intercept
linearRegression(x, y) == RegressionOf(x, y, Min(Len(x), Len(y)))

\* bound on the length of the two number lists
MaxPairs == 3

\* the numbers of the lists; three times 11 is a sum that is rounded
StatValues == {0, 1, 11}

InitStat ==
    /\ xs \in SeqsUpTo(StatValues, MaxPairs)
    /\ ys \in SeqsUpTo(StatValues, MaxPairs)
    /\ statResult = NotComputed

CallCovariance ==
    /\ statResult = NotComputed
    /\ statResult' = [fn |-> "covariance", value |-> covariance(xs, ys)]
    /\ UNCHANGED <<xs, ys>>

CallPearsonCorrelation ==
    /\ statResult = NotComputed
    /\ statResult' = [fn |-> "pearsonCorrelation", value |-> pearsonCorrelation(xs, ys)]
    /\ UNCHANGED <<xs, ys>>

CallLinearRegression ==
    /\ statResult = NotComputed
    /\ statResult' = [fn |-> "linearRegression", line |-> linearRegression(xs, ys)]
    /\ UNCHANGED <<xs, ys>>

-----------------------------------------------------------------------------
(* deceptive-viz: computeLineSeries *)

\* Number(row[col]); Number(undefined) is NaN
NumberOfField(row, col) == IF HasCell(row, col) THEN Number(row[col]) ELSE NaN

\* metric === 'imdb' ? 'IMDB_Rating' : 'Meta_score'
MetricKey(metric) == IF metric = "imdb" THEN "IMDB_Rating" ELSE "Meta_score"

\* if (Number.isNaN(y) || Number.isNaN(v)) continue
PassesNaNCheck(row, key) ==
    ~NumberOfField(row, "Released_Year").nan /\ ~NumberOfField(row, key).nan

\* row[col] !== 'true' -> continue
FlagIsTrue(row, col) == HasCell(row, col) /\ row[col] = <<"t", "r", "u", "e">>

YearOf(row) == NumberOfField(row, "Released_Year").val

\* the keys of the Map
YearsIn(rs) == { YearOf(rs[i]) : i \in DOMAIN rs }

\* yearValues.get(y): the values pushed for year y, in row order
ValuesOfYear(rs, key, y) ==
    [ i \in DOMAIN SelectSeq(rs, LAMBDA row : YearOf(row) = y) |->
        NumberOfField(SelectSeq(rs, LAMBDA row : YearOf(row) = y)[i], key).val ]

\* [...].sort((a, b) => a[0] - b[0]) on distinct keys
RECURSIVE Ascending(_)
SmallestFirst(S, m) == <<m>> \o Ascending(S \ {m})
Ascending(S) ==
    IF S = {} THEN <<>> ELSE SmallestFirst(S, CHOOSE m \in S : \A x \in S : m <= x)

\* vals.reduce((a, b) => a + b, 0) / vals.length
MeanOf(vals) == Over(ReduceAdd(vals, 1, Zero), FromInt(Len(vals)))

PointsAt(rs, key, years) ==
    [ i \in DOMAIN years |->
        [year |-> years[i], value |-> MeanOf(ValuesOfYear(rs, key, years[i]))] ]

\* the points of the rows that were pushed into the Map
PointsOf(pushed, key) == PointsAt(pushed, key, Ascending(YearsIn(pushed)))

allPoints(rs, key) == PointsOf(SelectSeq(rs, LAMBDA row : PassesNaNCheck(row, key)), key)

GenrePoints(rs, key, col) ==
    PointsOf(SelectSeq(rs, LAMBDA row : FlagIsTrue(row, col) /\ PassesNaNCheck(row, key)), key)

\* if (points.length > 0) series.push({ key: col, values: points })
PushIfPoints(col, points) ==
    IF Len(points) > 0 THEN <<[key |-> col, values |-> points]>> ELSE <<>>

\* for (const col of genreColumns) ...
RECURSIVE GenreSeries(_, _, _, _)
GenreSeries(rs, cols, key, c) ==
    IF c > Len(cols) THEN <<>>
    ELSE PushIfPoints(cols[c], GenrePoints(rs, key, cols[c])) \o GenreSeries(rs, cols, key, c + 1)

LineSeriesOf(rs, cols, key) ==
    <<[key |-> "All", values |-> allPoints(rs, key)]>> \o GenreSeries(rs, cols, key, 1)

computeLineSeries(rs, cols, metric) == LineSeriesOf(rs, cols, MetricKey(metric))

\* the records of the model: a year that is no number, a missing Meta_score
LineRecords ==
    [ Released_Year : { <<"2","0","0","1">>, <<"2","0","0","5">>, <<"P","G">> },
      IMDB_Rating : { <<"8">>, <<"9">> },
      Meta_score : { <<>>, <<"6">> },
      isDrama : { <<"t", "r", "u", "e">>, <<"f", "a", "l", "s", "e">> } ]

\* the genre column lists: isComedy is a column no record has
GenreColumnLists == { <<>>, <<"isComedy", "isDrama">> }

InitLine ==
    /\ lineRows \in SeqsUpTo(LineRecords, MaxRows)
    /\ genreColumns \in GenreColumnLists
    /\ lineMetric \in {"imdb", "meta"}
    /\ lineSeries = NotComputed

\* const lineSeries = useMemo(() => computeLineSeries(rows, genreColumns, lineMetric), ...)
ComputeLineSeries ==
    /\ lineSeries = NotComputed
    /\ lineSeries' = [computed |-> TRUE,
                      series |-> computeLineSeries(lineRows, genreColumns, lineMetric)]
    /\ UNCHANGED <<lineRows, genreColumns, lineMetric>>

-----------------------------------------------------------------------------
(* deceptive-viz: computeDisagreementByYear and computeDisagreementByGenre *)

\* Number(row[col]?.trim()); undefined?.trim() is undefined, Number(undefined) NaN
NumberOfTrimmedField(row, col) == IF HasCell(row, col) THEN Number(Trim(row[col])) ELSE NaN

\* ((imdb - 1) / 9) * 100
IMDB_TO_100(imdb) == Times(Over(Minus(imdb, FromInt(1)), FromInt(9)), FromInt(100))

metaOf(row) == FromInt(NumberOfTrimmedField(row, "Meta_score").val)
imdbRescaledOf(row) == IMDB_TO_100(FromInt(NumberOfTrimmedField(row, "IMDB_Rating").val))
gapOf(row) == Minus(imdbRescaledOf(row), metaOf(row))

\* if (Number.isNaN(meta) || Number.isNaN(imdb)) continue
RatingsPass(row) ==
    ~NumberOfTrimmedField(row, "Meta_score").nan /\ ~NumberOfTrimmedField(row, "IMDB_Rating").nan

\* if (Number.isNaN(meta) || Number.isNaN(imdb) || Number.isNaN(year)) continue
RatingsAndYearPass(row) == RatingsPass(row) /\ ~NumberOfField(row, "Released_Year").nan

\* list.reduce((a, b) => a + b, 0) on numbers
RECURSIVE SumNumbers(_, _, _)
SumNumbers(list, i, acc) ==
    IF i > Len(list) THEN acc ELSE SumNumbers(list, i + 1, Plus(acc, list[i]))

\* list.reduce((a, b) => a + b, 0) / list.length
MeanOfNumbers(list) == Over(SumNumbers(list, 1, Zero), FromInt(Len(list)))

\* a midline that is the critics' mean
MidlineAtMeta(meanMeta, meanImdbRescaled) == meanMeta

\* (meanMeta + meanImdbRescaled) / 2
Midline(meanMeta, meanImdbRescaled) == Over(Plus(meanMeta, meanImdbRescaled), FromInt(2))

YearDatum(year, meanGap, meanMeta, meanImdbRescaled, count) ==
    [year |-> year, meanGap |-> meanGap, meanMeta |-> meanMeta,
     meanImdbRescaled |-> meanImdbRescaled,
     meanAvg |-> Midline(meanMeta, meanImdbRescaled), count |-> count]

\* the datum of the entry of one year, entry holding the rows pushed for it
YearDatumOf(year, entry) ==
    YearDatum(year,
              MeanOfNumbers([i \in DOMAIN entry |-> gapOf(entry[i])]),
              MeanOfNumbers([i \in DOMAIN entry |-> metaOf(entry[i])]),
              MeanOfNumbers([i \in DOMAIN entry |-> imdbRescaledOf(entry[i])]),
              Len(entry))

ByYearOf(pushed, years) ==
    [ i \in DOMAIN years |->
        YearDatumOf(years[i], SelectSeq(pushed, LAMBDA row : YearOf(row) = years[i])) ]

ByYearOfPushed(pushed) == ByYearOf(pushed, Ascending(YearsIn(pushed)))

computeDisagreementByYear(rs) ==
    ByYearOfPushed(SelectSeq(rs, LAMBDA row : RatingsAndYearPass(row)))

\* s.split(',')[0]
RECURSIVE BeforeComma(_)
BeforeComma(str) ==
    IF str = <<>> \/ Head(str) = "," THEN <<>> ELSE <<Head(str)>> \o BeforeComma(Tail(str))

\* (row.Genre ?? '').split(',')[0]?.trim() ?? 'Other'
genreOf(row) == IF HasCell(row, "Genre") THEN Trim(BeforeComma(row.Genre)) ELSE <<>>

\* the keys of byGenre in insertion order
RECURSIVE KeysInOrder(_, _)
KeysInOrder(pushed, seen) ==
    IF pushed = <<>> THEN <<>>
    ELSE IF genreOf(Head(pushed)) \in seen THEN KeysInOrder(Tail(pushed), seen)
    ELSE <<genreOf(Head(pushed))>> \o KeysInOrder(Tail(pushed), seen \cup {genreOf(Head(pushed))})

GenreDatumOf(genre, entry) ==
    [genre |-> genre,
     meanGap |-> MeanOfNumbers([i \in DOMAIN entry |-> gapOf(entry[i])]),
     count |-> Len(entry)]

LessThan(x, y) == x.num * y.den < y.num * x.den

\* .sort((a, b) => a.meanGap - b.meanGap): stable, ascending
RECURSIVE InsertByMeanGap(_, _)
InsertByMeanGap(sorted, d) ==
    IF sorted = <<>> THEN <<d>>
    ELSE IF LessThan(d.meanGap, sorted[Len(sorted)].meanGap)
         THEN InsertByMeanGap(SubSeq(sorted, 1, Len(sorted) - 1), d) \o <<sorted[Len(sorted)]>>
         ELSE sorted \o <<d>>

RECURSIVE SortByMeanGap(_, _, _)
SortByMeanGap(data, i, sorted) ==
    IF i > Len(data) THEN sorted
    ELSE SortByMeanGap(data, i + 1, InsertByMeanGap(sorted, data[i]))

ByGenreOf(pushed, keys) ==
    SortByMeanGap(
        [ i \in DOMAIN keys |->
            GenreDatumOf(keys[i], SelectSeq(pushed, LAMBDA row : genreOf(row) = keys[i])) ],
        1, <<>>)

ByGenreOfPushed(pushed) == ByGenreOf(pushed, KeysInOrder(pushed, {}))

computeDisagreementByGenre(rs) ==
    ByGenreOfPushed(SelectSeq(rs, LAMBDA row : RatingsPass(row)))

\* bound on the number of records handed to the disagreement functions
MaxGapRows == 2

\* the records of the model: genre lists "", "D" and "C ,D", a missing Meta_score
GapRecords ==
    [ Released_Year : { <<"2","0","0","1">>, <<"2","0","0","5">> },
      Genre : { <<>>, <<"D">>, <<"C", " ", ",", "D">> },
      IMDB_Rating : { <<"7">>, <<"1", "0">> },
      Meta_score : { <<>>, <<"6">> } ]

InitGap ==
    /\ gapRows \in SeqsUpTo(GapRecords, MaxGapRows)
    /\ gapResult = NotComputed

CallDisagreementByYear ==
    /\ gapResult = NotComputed
    /\ gapResult' = [fn |-> "byYear", data |-> computeDisagreementByYear(gapRows)]
    /\ UNCHANGED gapRows

CallDisagreementByGenre ==
    /\ gapResult = NotComputed
    /\ gapResult' = [fn |-> "byGenre", data |-> computeDisagreementByGenre(gapRows)]
    /\ UNCHANGED gapRows

-----------------------------------------------------------------------------
(* StarChordChart: the chord layout of the data shown (spec.md, section 4.4) *)

\* angles are in turns: the full circle is 1
FullCircle == FromInt(1)

\* the fixed padding between two neighbouring arcs
PadAngle == Rat(1, 32)

PaddingOf(nodes) == Times(PadAngle, FromInt(Cardinality(nodes)))

\* the angle of one unit of weight: what is left of the circle after the
\* padding, divided by the sum of the node totals
AnglePerWeight(nodes) ==
    Over(Minus(FullCircle, PaddingOf(nodes)),
         FromInt(SumOver(nodes, [n \in nodes |-> n.total])))

\* arcs of one unit of weight each
SpanOfUnit(n, k) == k

\* the arc of a node: its total weight times the angle of a unit
SpanOf(n, k) == Times(FromInt(n.total), k)

\* the sub-interval of an edge, the same at both of its ends
RibbonEndOf(l, k) == Times(FromInt(l.value), k)

ChordLayoutWith(data, k) ==
    [ arcs |-> [ n \in data.nodes |-> SpanOf(n, k) ],
      ends |-> [ l \in data.links |-> RibbonEndOf(l, k) ] ]

chordLayout(data) ==
    ChordLayoutWith(data, IF data.nodes = {} THEN Zero ELSE AnglePerWeight(data.nodes))

-----------------------------------------------------------------------------
(* MoviePosterPanel: the order of the posters and the reported count *)

\* Number(field ?? 0) as the comparator uses it: a NaN difference is taken
\* as 0 by Array.prototype.sort
NumberOrZero(row, col) ==
    IF ~HasCell(row, col) THEN 0
    ELSE IF Number(row[col]).nan THEN 0 ELSE Number(row[col]).val

IsNumberField(row, col) == ~HasCell(row, col) \/ ~Number(row[col]).nan

\* a.localeCompare(b) on the titles of the model: capitals and digits, which
\* the collation orders as the code units do
localeCompare(a, b) == IF a = b THEN 0 ELSE IF StrLess(a, b) THEN -1 ELSE 1

Difference(a, b, col) ==
    IF IsNumberField(a, col) /\ IsNumberField(b, col)
    THEN NumberOrZero(a, col) - NumberOrZero(b, col)
    ELSE 0

cmpMovie(sortBy, a, b) ==
    CASE sortBy = "title" -> localeCompare(a.Series_Title, b.Series_Title)
      [] sortBy = "year" -> Difference(a, b, "Released_Year")
      [] sortBy = "imdb" -> Difference(b, a, "IMDB_Rating")
      [] sortBy = "meta" -> Difference(b, a, "Meta_score")
      [] OTHER -> 0

\* list.sort(cmp): stable, so m goes behind everything that is not after it
RECURSIVE InsertMovie(_, _, _)
InsertMovie(list, m, sortBy) ==
    IF list = <<>> THEN <<m>>
    ELSE IF cmpMovie(sortBy, list[Len(list)], m) > 0
         THEN InsertMovie(SubSeq(list, 1, Len(list) - 1), m, sortBy) \o <<list[Len(list)]>>
         ELSE list \o <<m>>

RECURSIVE SortMovies(_, _, _, _)
SortMovies(list, i, done, sortBy) ==
    IF i > Len(list) THEN done
    ELSE SortMovies(list, i + 1, InsertMovie(done, list[i], sortBy), sortBy)

\* filteredMovieIds.has(m.Series_Title ?? '')
IsActiveMovie(m) == m.Series_Title \in filteredMovieIds

\* one list of all the posters in the selected order
SortedAsOne == SortMovies(allMoviesForPanel, 1, <<>>, posterSortBy)

\* [...filtered.sort(cmp), ...rest.sort(cmp)]
sorted ==
    SortMovies(SelectSeq(allMoviesForPanel, IsActiveMovie), 1, <<>>, posterSortBy)
      \o SortMovies(SelectSeq(allMoviesForPanel, LAMBDA m : ~IsActiveMovie(m)), 1, <<>>,
                    posterSortBy)

\* stats.count
statsCount == Len(SelectSeq(sorted, IsActiveMovie))

-----------------------------------------------------------------------------
(* deceptive-viz: computeColumnStats *)

IsGenreFlag(c) == StartsWithIs(c) /\ c # "is"

\* rows.map((r) => r[name]?.trim()).filter((v) => v != null && v !== '')
ValuesOfColumn(rs, name) ==
    SelectSeq([ i \in DOMAIN rs |-> IF HasCell(rs[i], name) THEN Trim(rs[i][name]) ELSE <<>> ],
              LAMBDA v : v # <<>>)

\* r[name] ?? ''
CellOrEmpty(row, name) == IF HasCell(row, name) THEN row[name] ELSE <<>>

\* list.map(parse).filter((n) => n != null): the numbers of the parsed cells
PresentNumbers(parsed) ==
    [ i \in DOMAIN SelectSeq(parsed, LAMBDA c : c.present) |->
        SelectSeq(parsed, LAMBDA c : c.present)[i].val ]

\* the nums of a column, each branch parsing as the code does
NumsOfColumn(rs, name) ==
    CASE name = "Runtime" ->
           PresentNumbers([ i \in DOMAIN rs |-> parseRuntime(CellOrEmpty(rs[i], name)) ])
      [] name = "Gross" ->
           PresentNumbers([ i \in DOMAIN rs |-> parseGross(CellOrEmpty(rs[i], name)) ])
      [] name = "No_of_Votes" ->
           PresentNumbers([ i \in DOMAIN ValuesOfColumn(rs, name) |->
                               NullIfNaN(Number(WithoutCommas(ValuesOfColumn(rs, name)[i]))) ])
      [] OTHER ->
           PresentNumbers([ i \in DOMAIN ValuesOfColumn(rs, name) |->
                               NullIfNaN(Number(ValuesOfColumn(rs, name)[i])) ])

RECURSIVE InsertNumber(_, _)
InsertNumber(list, n) ==
    IF list = <<>> THEN <<n>>
    ELSE IF list[Len(list)] > n
         THEN InsertNumber(SubSeq(list, 1, Len(list) - 1), n) \o <<list[Len(list)]>>
         ELSE list \o <<n>>

\* [...nums].sort((a, b) => a - b)
RECURSIVE SortNumbers(_, _, _)
SortNumbers(nums, i, done) ==
    IF i > Len(nums) THEN done ELSE SortNumbers(nums, i + 1, InsertNumber(done, nums[i]))

\* sorted.length % 2 ? sorted[mid] : (sorted[mid - 1] + sorted[mid]) / 2
MedianOfSorted(list, mid) ==
    IF Len(list) % 2 = 1 THEN FromInt(list[mid + 1])
    ELSE Over(Plus(FromInt(list[mid]), FromInt(list[mid + 1])), FromInt(2))

MedianOf(nums) == MedianOfSorted(SortNumbers(nums, 1, <<>>), Len(nums) \div 2)

\* Math.round(x): the integer nearest to x, halves upwards
MathRound(x) == FromInt((2 * x.num + x.den) \div (2 * x.den))

\* Math.round(x * scale) / scale
RoundedTo(x, scale) == Over(MathRound(Times(x, FromInt(scale))), FromInt(scale))

\* the digits kept by the branch of a column: one for Runtime, two for the
\* ratings, none for the votes and the gross
ScaleOf(name) ==
    CASE name = "Runtime" -> 10
      [] name \in {"IMDB_Rating", "Meta_score"} -> 100
      [] OTHER -> 1

NumericSummary(name, nums, missing) ==
    [ name |-> name,
      numeric |->
        [ min |-> SortNumbers(nums, 1, <<>>)[1],
          max |-> SortNumbers(nums, 1, <<>>)[Len(nums)],
          mean |-> RoundedTo(MeanOf(nums), ScaleOf(name)),
          median |-> RoundedTo(MedianOf(nums), ScaleOf(name)),
          count |-> Len(nums),
          missing |-> missing ] ]

TemporalSummary(name, nums) ==
    [ name |-> name,
      temporal |-> [ min |-> SortNumbers(nums, 1, <<>>)[1],
                     max |-> SortNumbers(nums, 1, <<>>)[Len(nums)] ] ]

\* [...new Set(values)]: the distinct values in the order of first occurrence
RECURSIVE DistinctInOrder(_, _)
DistinctInOrder(values, seen) ==
    IF values = <<>> THEN <<>>
    ELSE IF Head(values) \in seen THEN DistinctInOrder(Tail(values), seen)
    ELSE <<Head(values)>> \o DistinctInOrder(Tail(values), seen \cup {Head(values)})

\* the fall-through return: distinct values and a sample of at most five
CategoricalSummary(name, distinct) ==
    [ name |-> name,
      categorical |-> [ distinct |-> Len(distinct),
                        sample |-> SubSeq(distinct, 1, Min(5, Len(distinct))),
                        sampleAsImages |-> name = "Poster_Link" ] ]

\* if (nums.length) return the numeric (or temporal) summary; else fall through
SummaryOf(name, nums, values, missing) ==
    IF nums # <<>> /\ name = "Released_Year" THEN TemporalSummary(name, nums)
    ELSE IF nums # <<>> /\ name \in {"Runtime", "IMDB_Rating", "Meta_score", "No_of_Votes", "Gross"}
    THEN NumericSummary(name, nums, missing)
    ELSE CategoricalSummary(name, DistinctInOrder(values, {}))

ColumnSummary(rs, name) ==
    SummaryOf(name, NumsOfColumn(rs, name), ValuesOfColumn(rs, name),
              Len(rs) - Len(ValuesOfColumn(rs, name)))

\* trueCount: rows.filter((r) => r[col] === 'true').length
GenreFlagsEntry(rs, genreCols) ==
    [ name |-> "Genre (boolean flags)",
      genreFlags |->
        [ i \in DOMAIN genreCols |->
            [ name |-> genreCols[i],
              trueCount |-> Len(SelectSeq(rs, LAMBDA r : FlagIsTrue(r, genreCols[i]))) ] ] ]

ColumnStatsOf(rs, nonGenreColumns, genreCols) ==
    [ i \in DOMAIN nonGenreColumns |-> ColumnSummary(rs, nonGenreColumns[i]) ]
      \o (IF genreCols = <<>> THEN <<>> ELSE <<GenreFlagsEntry(rs, genreCols)>>)

computeColumnStats(rs, columns) ==
    ColumnStatsOf(rs, SelectSeq(columns, LAMBDA c : ~IsGenreFlag(c)),
                  SelectSeq(columns, IsGenreFlag))

\* bound on the number of records handed to computeColumnStats
MaxColRows == 2

\* the cells of the model: a runtime, a malformed text and a missing value;
\* a score, a malformed text and a missing value; a gross with a thousands
\* separator, a blank and a missing value
ColRecords ==
    [ Runtime : { <<>>, <<"9", " ", "m", "i", "n">>, <<"x">> },
      Meta_score : { <<>>, <<"6">>, <<"x">> },
      Gross : { <<>>, <<" ">>, <<"1", ",", "1">> },
      isDrama : { <<"t", "r", "u", "e">>, <<"f", "a", "l", "s", "e">> } ]

ColColumnLists ==
    { <<"Runtime">>, <<"Meta_score">>, <<"Gross">>,
      <<"Meta_score", "isDrama", "Runtime", "Gross">> }

InitCol ==
    /\ colRows \in SeqsUpTo(ColRecords, MaxColRows)
    /\ colColumns \in ColColumnLists
    /\ colStats = NotComputed

ComputeColumnStats ==
    /\ colStats = NotComputed
    /\ colStats' = [computed |-> TRUE, stats |-> computeColumnStats(colRows, colColumns)]
    /\ UNCHANGED <<colRows, colColumns>>

-----------------------------------------------------------------------------
(* DataExplorationTab: series visibility, the line chart's drawing, the
   scatter mode and its year slider *)

TabMovie(year, imdb, comedy, drama) ==
    [ Released_Year |-> year, IMDB_Rating |-> imdb, isComedy |-> comedy, isDrama |-> drama ]

\* the rows of the tab: every year is earlier than 2020
tabRows ==
    << TabMovie(<<"2","0","0","1">>, <<"8">>, <<"t","r","u","e">>, <<"f","a","l","s","e">>),
       TabMovie(<<"2","0","0","3">>, <<"9">>, <<"f","a","l","s","e">>, <<"t","r","u","e">>),
       TabMovie(<<"2","0","0","5">>, <<"7">>, <<"f","a","l","s","e">>, <<"t","r","u","e">>) >>

\* lineSeries = useMemo(() => computeLineSeries(rows, genreColumns, lineMetric))
tabLineSeries == computeLineSeries(tabRows, <<"isComedy", "isDrama">>, "imdb")

SeriesKeys(series) == { series[i].key : i \in DOMAIN series }

\* the numeric years of the rows, ascending and distinct
scatterYears ==
    Ascending({ Number(tabRows[i].Released_Year).val :
                  i \in { k \in DOMAIN tabRows : ~Number(tabRows[k].Released_Year).nan } })

\* series.filter((s) => visibleKeys.has(s.key)).map((s) => s.key)
VisibleKeysOf(series, visibleKeys) ==
    [ i \in DOMAIN SelectSeq(series, LAMBDA sr : sr.key \in visibleKeys) |->
        SelectSeq(series, LAMBDA sr : sr.key \in visibleKeys)[i].key ]

\* the draw effect of ExplorationLineChart: it returns before touching the
\* svg when there is no series or no visible series, and otherwise removes
\* everything and appends one path per visible series
DrawEffect(paths, series, visibleKeys) ==
    IF series = <<>> \/ VisibleKeysOf(series, visibleKeys) = <<>>
    THEN paths
    ELSE VisibleKeysOf(series, visibleKeys)

\* next.has(key) ? next.delete(key) : next.add(key)
Toggled(prev, key) == IF key \in prev THEN prev \ {key} ELSE prev \cup {key}

ScatterKept == UNCHANGED <<scatterUseTimeline, scatterShowAllMovies, scatterSelectedYear>>

\* the onChange of a series checkbox, and the render and effect after it
toggleLineSeries(key) ==
    /\ lineVisible' = Toggled(lineVisible, key)
    /\ svgPaths' = DrawEffect(svgPaths, tabLineSeries, lineVisible')
    /\ tabOp' = [op |-> "toggle", key |-> key]
    /\ ScatterKept

\* the three radio buttons of the scatter
SetScatterMode(showAll, timeline, name) ==
    /\ scatterShowAllMovies' = showAll
    /\ scatterUseTimeline' = timeline
    /\ tabOp' = [op |-> name]
    /\ UNCHANGED <<scatterSelectedYear, lineVisible, svgPaths>>

ChooseByGenre == SetScatterMode(FALSE, FALSE, "byGenre")
ChooseAllMovies == SetScatterMode(TRUE, FALSE, "allMovies")
ChooseByYear == SetScatterMode(FALSE, TRUE, "byYear")

\* the slider is rendered in by-year mode when there are years
sliderRendered == scatterUseTimeline /\ scatterYears # <<>>

\* value={Math.max(scatterYears[0], Math.min(scatterYears[last], scatterSelectedYear))}
sliderValue == Max(scatterYears[1], Min(scatterYears[Len(scatterYears)], scatterSelectedYear))

\* the label next to the slider
sliderLabel == scatterSelectedYear

\* selectedYear={scatterUseTimeline ? scatterSelectedYear : null}
selectedYear == IF scatterUseTimeline THEN Present(scatterSelectedYear) ELSE Absent

\* ExplorationScatter: selectedYear != null && !showAllMovies
isByYear == selectedYear.present /\ ~scatterShowAllMovies

\* onChange={(e) => setScatterSelectedYear(Number(e.target.value))}
SlideScatterYear(v) ==
    /\ sliderRendered
    /\ scatterSelectedYear' = v
    /\ tabOp' = [op |-> "slide"]
    /\ UNCHANGED <<scatterUseTimeline, scatterShowAllMovies, lineVisible, svgPaths>>

InitTab ==
    /\ lineVisible = {"All"}
    /\ svgPaths = DrawEffect(<<>>, tabLineSeries, lineVisible)
    /\ scatterUseTimeline = FALSE
    /\ scatterShowAllMovies = FALSE
    /\ scatterSelectedYear = 2020
    /\ tabOp = [op |-> "init"]

-----------------------------------------------------------------------------
(* The hover tooltips of ExplorationLineChart and ExplorationScatter *)

\* the pixels of the plot area a pointer event can report
PlotPixels == 0 .. 4
PixelsPerYear == 1

\* svg.append('g').attr('pointer-events', 'none').style('display', 'none')
HiddenTooltip == [display |-> "none", transform |-> <<>>, tspans |-> <<>>]

\* the series of the render that registered the handlers
visibleSeries == SelectSeq(tabLineSeries, LAMBDA sr : sr.key \in lineVisible)

\* [...new Set(visible.flatMap((s) => s.values.map((d) => d.year)))].sort()
sortedYears ==
    Ascending(UNION { { visibleSeries[i].values[k].year : k \in DOMAIN visibleSeries[i].values } :
                        i \in DOMAIN visibleSeries })

\* the x scale: linear from the first year of the data
xScale(year) == (year - sortedYears[1]) * PixelsPerYear

\* d3.bisectLeft over the years, searched up to the last index
BisectLeft(px) ==
    IF \E i \in DOMAIN sortedYears : xScale(sortedYears[i]) >= px
    THEN CHOOSE i \in DOMAIN sortedYears :
           /\ xScale(sortedYears[i]) >= px
           /\ \A k \in 1 .. i - 1 : xScale(sortedYears[k]) < px
    ELSE Len(sortedYears)

\* d3.bisectCenter(sortedYears, x.invert(px)): the index of the nearest
\* year, the later one of two that are equally near
bisectCenter(px) ==
    IF BisectLeft(px) > 1
         /\ px - xScale(sortedYears[BisectLeft(px) - 1]) < xScale(sortedYears[BisectLeft(px)]) - px
    THEN BisectLeft(px) - 1
    ELSE BisectLeft(px)

nearestYear(px) == sortedYears[Max(1, Min(bisectCenter(px), Len(sortedYears)))]

HasYear(sr, year) == \E k \in DOMAIN sr.values : sr.values[k].year = year

\* s.values.find((d) => d.year === nearestYear)
PointAtYear(sr, year) ==
    sr.values[CHOOSE k \in DOMAIN sr.values :
                /\ sr.values[k].year = year
                /\ \A j \in 1 .. k - 1 : sr.values[j].year # year]

\* the value whose y position the tooltip takes: that of the first visible
\* series with a point at the year, else the middle of the chart
TooltipValue(year) ==
    IF \E i \in DOMAIN visibleSeries : HasYear(visibleSeries[i], year)
    THEN Present(PointAtYear(SelectSeq(visibleSeries, LAMBDA sr : HasYear(sr, year))[1], year).value)
    ELSE Absent

\* lines = [`Year: ...`], then one line per visible series with a point
RECURSIVE SeriesLines(_, _)
SeriesLines(i, year) ==
    IF i > Len(visibleSeries) THEN <<>>
    ELSE (IF HasYear(visibleSeries[i], year)
          THEN <<[label |-> visibleSeries[i].key, value |-> PointAtYear(visibleSeries[i], year).value]>>
          ELSE <<>>) \o SeriesLines(i + 1, year)

LineChartLines(year) == <<[label |-> "Year", value |-> year]>> \o SeriesLines(1, year)

\* a handler that appends a tspan per line to those already there
AppendTspans(tspans, lines) == tspans \o lines

\* t.selectAll('tspan').data(lines).join('tspan').text((d) => d): the tspans
\* already there are updated, missing ones entered, surplus ones removed
JoinTspans(tspans, lines) ==
    [ i \in 1 .. Len(lines) |-> lines[i] ]

\* pointermoved of the line chart
pointermoved(tip, px) ==
    [ display |-> "",
      transform |-> <<xScale(nearestYear(px)), TooltipValue(nearestYear(px))>>,
      tspans |-> JoinTspans(tip.tspans, LineChartLines(nearestYear(px))) ]

\* pointerleft: tooltip.style('display', 'none')
pointerleft(tip) == [tip EXCEPT !.display = "none"]

\* the circles of the scatter in the genre-average mode
displayPoints ==
    << [genre |-> "Drama", runtime |-> 120, rating |-> 8, count |-> 2],
       [genre |-> "Comedy", runtime |-> 95, rating |-> 7, count |-> 1] >>

\* the lines of the scatter's tooltip for a genre average
ScatterLines(d) ==
    << [label |-> "Genre", value |-> d.genre],
       [label |-> "Avg runtime", value |-> d.runtime],
       [label |-> "Avg rating", value |-> d.rating],
       [label |-> "Movies", value |-> d.count] >>

\* the 'pointerenter pointermove' handler of a circle
circleMoved(tip, mx, my, d) ==
    [ display |-> "",
      transform |-> <<mx + 12, my + 12>>,
      tspans |-> JoinTspans(tip.tspans, ScatterLines(d)) ]

\* the 'pointerleave' handler of a circle
circleLeft(tip) == [tip EXCEPT !.display = "none"]

InitTip ==
    /\ lineTip = HiddenTooltip
    /\ scatterTip = HiddenTooltip
    /\ tipEvent = [chart |-> "none", type |-> "none"]

\* svg.on('pointerenter pointermove', pointermoved)
LinePointerMoved(type, px) ==
    /\ lineTip' = pointermoved(lineTip, px)
    /\ tipEvent' = [chart |-> "line", type |-> type]
    /\ UNCHANGED scatterTip

\* svg.on('pointerleave', pointerleft)
LinePointerLeft ==
    /\ lineTip' = pointerleft(lineTip)
    /\ tipEvent' = [chart |-> "line", type |-> "pointerleave"]
    /\ UNCHANGED scatterTip

ScatterPointerMoved(type, mx, my, i) ==
    /\ scatterTip' = circleMoved(scatterTip, mx, my, displayPoints[i])
    /\ tipEvent' = [chart |-> "scatter", type |-> type]
    /\ UNCHANGED lineTip

ScatterPointerLeft ==
    /\ scatterTip' = circleLeft(scatterTip)
    /\ tipEvent' = [chart |-> "scatter", type |-> "pointerleave"]
    /\ UNCHANGED lineTip

InitSel ==
    /\ starYearMin = 2000
    /\ starYearMax = 2020
    /\ starMinConnectionSize = 1
    /\ selectedConnection = Null
    /\ selectedMovie = Null
    /\ posterSortBy = "imdb"
    /\ connRange = getConnectionCountRange(rows, starYearMin, starYearMax)
    /\ starChordData =
           computeStarCooccurrenceMatrix(rows, starYearMin, starYearMax, effectiveMinConn)
    /\ lastOp = [op |-> "init"]
    /\ preSel = [connection |-> Null, movie |-> Null]

InitCorrIdle ==
    /\ corrRows = <<>>
    /\ corrColumns = <<>>
    /\ corrResult = NotComputed

InitStatIdle ==
    /\ xs = <<>>
    /\ ys = <<>>
    /\ statResult = NotComputed

InitLineIdle ==
    /\ lineRows = <<>>
    /\ genreColumns = <<>>
    /\ lineMetric = "imdb"
    /\ lineSeries = NotComputed

InitGapIdle == gapRows = <<>> /\ gapResult = NotComputed

InitColIdle == colRows = <<>> /\ colColumns = <<>> /\ colStats = NotComputed

Init == InitSel /\ InitCorrIdle /\ InitStatIdle /\ InitLineIdle /\ InitGapIdle /\ InitColIdle /\ InitTab /\ InitTip

Next ==
    \/ \E r \in ClickableRibbons : onConnectionClick(r[1], r[2]) /\ UNCHANGED <<corrVars, statVars, lineVars, gapVars, colVars, tabVars, tipVars>>
    \/ \E id \in ClickableMovies : onMovieClick(id) /\ UNCHANGED <<corrVars, statVars, lineVars, gapVars, colVars, tabVars, tipVars>>
    \/ ClearSelection /\ UNCHANGED <<corrVars, statVars, lineVars, gapVars, colVars, tabVars, tipVars>>
    \/ \E s \in SortKeys : onSortChange(s) /\ UNCHANGED <<corrVars, statVars, lineVars, gapVars, colVars, tabVars, tipVars>>
    \/ \E text \in YearInputs : YearMinChange(text) /\ UNCHANGED <<corrVars, statVars, lineVars, gapVars, colVars, tabVars, tipVars>>
    \/ \E text \in YearInputs : YearMaxChange(text) /\ UNCHANGED <<corrVars, statVars, lineVars, gapVars, colVars, tabVars, tipVars>>
    \/ \E v \in connMin .. connMax : MinConnectionChange(v) /\ UNCHANGED <<corrVars, statVars, lineVars, gapVars, colVars, tabVars, tipVars>>
    \/ ClampEffect /\ UNCHANGED <<corrVars, statVars, lineVars, gapVars, colVars, tabVars, tipVars>>

Spec == Init /\ [][Next]_vars

\* the correlation matrix of every bounded input
NextCorr == ComputeCorrelation /\ UNCHANGED <<selVars, statVars, lineVars, gapVars, colVars, tabVars, tipVars>>
InitCorrelation == InitSel /\ InitCorr /\ InitStatIdle /\ InitLineIdle /\ InitGapIdle /\ InitColIdle /\ InitTab /\ InitTip
SpecCorr == InitCorrelation /\ [][NextCorr]_vars

\* the three statistics functions on every bounded pair of lists
NextStat ==
    \/ CallCovariance /\ UNCHANGED <<selVars, corrVars, lineVars, gapVars, colVars, tabVars, tipVars>>
    \/ CallPearsonCorrelation /\ UNCHANGED <<selVars, corrVars, lineVars, gapVars, colVars, tabVars, tipVars>>
    \/ CallLinearRegression /\ UNCHANGED <<selVars, corrVars, lineVars, gapVars, colVars, tabVars, tipVars>>
InitStatistics == InitSel /\ InitCorrIdle /\ InitStat /\ InitLineIdle /\ InitGapIdle /\ InitColIdle /\ InitTab /\ InitTip
SpecStat == InitStatistics /\ [][NextStat]_vars

\* the line series of every bounded input
NextLine == ComputeLineSeries /\ UNCHANGED <<selVars, corrVars, statVars, gapVars, colVars, tabVars, tipVars>>
InitLineSeries == InitSel /\ InitCorrIdle /\ InitStatIdle /\ InitLine /\ InitGapIdle /\ InitColIdle /\ InitTab /\ InitTip
SpecLine == InitLineSeries /\ [][NextLine]_vars

\* the two disagreement aggregations of every bounded input
NextGap ==
    \/ CallDisagreementByYear /\ UNCHANGED <<selVars, corrVars, statVars, lineVars, colVars, tabVars, tipVars>>
    \/ CallDisagreementByGenre /\ UNCHANGED <<selVars, corrVars, statVars, lineVars, colVars, tabVars, tipVars>>
InitDisagreement == InitSel /\ InitCorrIdle /\ InitStatIdle /\ InitLineIdle /\ InitGap /\ InitColIdle /\ InitTab /\ InitTip
SpecGap == InitDisagreement /\ [][NextGap]_vars

\* the column summaries of every bounded input
NextCol ==
    ComputeColumnStats /\ UNCHANGED <<selVars, corrVars, statVars, lineVars, gapVars, tabVars, tipVars>>
InitColumnStats ==
    InitSel /\ InitCorrIdle /\ InitStatIdle /\ InitLineIdle /\ InitGapIdle /\ InitCol /\ InitTab /\ InitTip
SpecCol == InitColumnStats /\ [][NextCol]_vars

\* the controls of the data exploration tab
OutsideTab == UNCHANGED <<selVars, corrVars, statVars, lineVars, gapVars, colVars, tipVars>>
NextTab ==
    \/ \E key \in SeriesKeys(tabLineSeries) : toggleLineSeries(key) /\ OutsideTab
    \/ ChooseByGenre /\ OutsideTab
    \/ ChooseAllMovies /\ OutsideTab
    \/ ChooseByYear /\ OutsideTab
    \/ \E v \in scatterYears[1] .. scatterYears[Len(scatterYears)] :
           SlideScatterYear(v) /\ OutsideTab
InitExplorationTab ==
    InitSel /\ InitCorrIdle /\ InitStatIdle /\ InitLineIdle /\ InitGapIdle /\ InitColIdle /\ InitTab /\ InitTip
SpecTab == InitExplorationTab /\ [][NextTab]_vars

\* pointer events over the two charts of the tab, drawn with any visible series
OutsideTip == UNCHANGED <<selVars, corrVars, statVars, lineVars, gapVars, colVars, tabVars>>
PointerTypes == {"pointerenter", "pointermove"}
NextTip ==
    \/ \E type \in PointerTypes, px \in PlotPixels : LinePointerMoved(type, px) /\ OutsideTip
    \/ LinePointerLeft /\ OutsideTip
    \/ \E type \in PointerTypes, mx \in {0, 1}, my \in {0, 1}, i \in DOMAIN displayPoints :
           ScatterPointerMoved(type, mx, my, i) /\ OutsideTip
    \/ ScatterPointerLeft /\ OutsideTip
InitPointerEvents ==
    /\ InitSel /\ InitCorrIdle /\ InitStatIdle /\ InitLineIdle /\ InitGapIdle /\ InitColIdle
    /\ lineVisible \in SUBSET SeriesKeys(tabLineSeries) \ {{}}
    /\ svgPaths = DrawEffect(<<>>, tabLineSeries, lineVisible)
    /\ scatterUseTimeline = FALSE
    /\ scatterShowAllMovies = FALSE
    /\ scatterSelectedYear = 2020
    /\ tabOp = [op |-> "init"]
    /\ InitTip
SpecTip == InitPointerEvents /\ [][NextTip]_vars

-----------------------------------------------------------------------------
(* The selection state machine: Idle, EdgeSelected(a, b), RecordSelected(id) *)

Idle == selectedConnection = Null /\ selectedMovie = Null
EdgeSelected == selectedConnection # Null /\ selectedMovie = Null
RecordSelected == selectedConnection = Null /\ selectedMovie # Null

\* the unordered pair of a connection
PairOf(c) == {c.actorA, c.actorB}

\* C1: the selected connection and the selected movie are never both
\* non-null, in any state reachable by ribbon clicks, movie clicks, clear,
\* filter changes and sort changes
C1_OneSelectionAtMost == ~(selectedConnection # Null /\ selectedMovie # Null)

\* a record was clicked while an edge was selected, and is now selected
C1_Witness ==
    /\ lastOp.op = "selectRecord"
    /\ preSel.connection # Null
    /\ selectedMovie # Null

\* C2 as claimed: from any state, clicking the ribbon (a, b) and then (a, b)
\* or (b, a) ends in Idle
C2_AnyStartEndsIdle ==
    [][ ( /\ lastOp.op = "selectEdge"
          /\ lastOp'.op = "selectEdge"
          /\ {lastOp'.a, lastOp'.b} = {lastOp.a, lastOp.b} )
        => Idle' ]_vars

\* C2 amended: from any state other than EdgeSelected on the same unordered
\* pair, clicking the ribbon (a, b) and then (a, b) or (b, a) ends in Idle
C2_ToggleFromOtherStates ==
    [][ ( /\ lastOp.op = "selectEdge"
          /\ lastOp'.op = "selectEdge"
          /\ {lastOp'.a, lastOp'.b} = {lastOp.a, lastOp.b}
          /\ ~(preSel.connection # Null /\ PairOf(preSel.connection) = {lastOp.a, lastOp.b}) )
        => Idle' ]_vars

\* the second click, on the same pair in the other order, has just ended in Idle
C2_Witness ==
    /\ lastOp.op = "selectEdge"
    /\ preSel.connection # Null
    /\ preSel.connection.actorA = lastOp.b
    /\ preSel.connection.actorB = lastOp.a
    /\ lastOp.a # lastOp.b
    /\ Idle

\* C3: selectEdge(a, b) results in Idle when the state was EdgeSelected with
\* the same unordered pair, and in EdgeSelected(a, b) with no record selected
\* from every other state
C3_SelectEdge ==
    lastOp.op = "selectEdge" =>
        IF preSel.connection # Null /\ PairOf(preSel.connection) = {lastOp.a, lastOp.b}
        THEN Idle
        ELSE /\ selectedConnection = [actorA |-> lastOp.a, actorB |-> lastOp.b]
             /\ selectedMovie = Null

\* an edge was clicked while another pair was selected
C3_Witness ==
    /\ lastOp.op = "selectEdge"
    /\ preSel.connection # Null
    /\ PairOf(preSel.connection) # {lastOp.a, lastOp.b}
    /\ EdgeSelected

\* C4: selectRecord(id) results in Idle from RecordSelected(id), and in
\* RecordSelected(id) with no edge selected from every other state
C4_SelectRecord ==
    lastOp.op = "selectRecord" =>
        IF preSel.movie = Str(lastOp.id)
        THEN Idle
        ELSE selectedMovie = Str(lastOp.id) /\ selectedConnection = Null

\* a record was clicked while another record was selected
C4_Witness ==
    /\ lastOp.op = "selectRecord"
    /\ preSel.movie # Null
    /\ preSel.movie # Str(lastOp.id)
    /\ RecordSelected

\* C5: clear() results in Idle, and the 'Clear selection' control is offered
\* exactly in the states that are not Idle
C5_Clear ==
    /\ lastOp.op = "clear" => Idle
    /\ clearButtonShown <=> ~Idle

\* the selection of a record has just been cleared
C5_Witness ==
    /\ lastOp.op = "clear"
    /\ preSel.movie # Null
    /\ Idle

\* the records that pass the current year filter, in dataset order
FilterSurviving == ActiveRows(rows, starYearMin, starYearMax)

\* the contribution list stored under a key, none being the empty list
StoredUnder(key) ==
    IF key \in DOMAIN starChordData.connectionMovies
    THEN starChordData.connectionMovies[key] ELSE <<>>

\* C6: displayMovies is all filter-surviving records in Idle, the records of
\* the contribution list stored under the unordered key of {a, b} in
\* EdgeSelected(a, b), whichever way round the pair was clicked, and the one
\* record with that id in RecordSelected(id)
C6_ActiveSubset ==
    /\ Idle => displayMovies = FilterSurviving
    /\ EdgeSelected =>
         /\ Titles(displayMovies) =
                StoredUnder(ConnectionKey(selectedConnection.actorA, selectedConnection.actorB))
         /\ Titles(displayMovies) =
                StoredUnder(ConnectionKey(selectedConnection.actorB, selectedConnection.actorA))
         /\ \A i \in DOMAIN displayMovies :
                /\ PairOf(selectedConnection) \subseteq Participants(displayMovies[i])
                /\ displayMovies[i] \in { FilterSurviving[k] : k \in DOMAIN FilterSurviving }
    /\ RecordSelected =>
         /\ Len(displayMovies) = 1
         /\ displayMovies[1].Series_Title = selectedMovie.str
         /\ displayMovies[1] \in { rows[k] : k \in DOMAIN rows }

\* a pair clicked with the larger name first shows its two shared records
C6_Witness ==
    /\ EdgeSelected
    /\ StrLess(selectedConnection.actorB, selectedConnection.actorA)
    /\ Len(displayMovies) = 2

\* C7: the chord data handed to the chart is the co-occurrence result
\* restricted to the trimmed, non-empty Star1..Star4 of the selected record
\* exactly in RecordSelected, the unchanged result in Idle and EdgeSelected,
\* and no connection is passed as highlighted while a record is selected
C7_ChordScope ==
    /\ RecordSelected =>
         /\ selectedMovie.str \in DOMAIN moviesById
         /\ chordDataToShow.links =
                { l \in starChordData.links :
                    {l.source, l.target} \subseteq Participants(moviesById[selectedMovie.str]) }
         /\ \A n \in chordDataToShow.nodes :
                n.name \in Participants(moviesById[selectedMovie.str])
         /\ chordSelectedConnection = Null
    /\ ~RecordSelected =>
         /\ chordDataToShow = starChordData
         /\ chordSelectedConnection = selectedConnection

\* the record whose second star is written with a leading blank is selected
\* and the chord keeps that pair's ribbon only
C7_Witness ==
    /\ RecordSelected
    /\ <<" ", "B">> \in UntrimmedStars(moviesById[selectedMovie.str])
    /\ Cardinality(chordDataToShow.links) = 1
    /\ Cardinality(starChordData.links) = 3

-----------------------------------------------------------------------------
(* The correlation matrix *)

Entry(i, j) == corrResult.matrix[i][j]
ColumnIndices == DOMAIN corrResult.columns

\* the values column i holds, over the rows in which it holds one
PresentValues(i) ==
    LET col == corrResult.columns[i]
        ks == { k \in DOMAIN corrRows : CellValue(corrRows[k], col).present }
    IN [ count |-> Cardinality(ks),
         values |-> { CellValue(corrRows[k], col).val : k \in ks } ]

\* C8 as claimed: the matrix is square over the returned column list,
\* symmetric, and has exactly 1 on every diagonal entry, also for columns
\* that are entirely missing or constant
C8_SquareSymmetricUnitDiagonal ==
    corrResult.computed =>
        /\ Len(corrResult.matrix) = Len(corrResult.columns)
        /\ \A i \in ColumnIndices : Len(corrResult.matrix[i]) = Len(corrResult.columns)
        /\ \A i \in ColumnIndices : \A j \in ColumnIndices : Entry(i, j) = Entry(j, i)
        /\ \A i \in ColumnIndices : Entry(i, i) = One

\* the Pearson correlation of columns i and j over the rows in which both are
\* present, where it is defined
PairwisePearson(i, j) ==
    LET di == [ k \in DOMAIN corrRows |-> CellValue(corrRows[k], corrResult.columns[i]) ]
        dj == [ k \in DOMAIN corrRows |-> CellValue(corrRows[k], corrResult.columns[j]) ]
        ks == BothPresent(di, dj, 1)
        a == ValuesAt(di, ks)
        b == ValuesAt(dj, ks)
        va == covariance(a, a)
        vb == covariance(b, b)
        c == covariance(a, b)
    IN [ defined |-> va.num > 0 /\ vb.num > 0,
         value |-> Over(c, Times(Sqrt(Max0(va)), Sqrt(Max0(vb)))) ]

\* C9 as claimed: every entry lies in [-1, 1] and is the Pearson correlation
\* of its two columns over exactly the rows where both values are present
C9_PairwisePearsonInUnit ==
    corrResult.computed =>
        \A i \in ColumnIndices : \A j \in ColumnIndices :
            /\ WithinUnit(Entry(i, j))
            /\ PairwisePearson(i, j).defined => Entry(i, j) = PairwisePearson(i, j).value

\* C10 as claimed: a column with zero variance (constant, or with fewer than
\* two present values) has correlation exactly 1 with itself and exactly 0
\* with every other column
C10_ZeroVarianceColumn ==
    corrResult.computed =>
        \A i \in ColumnIndices :
            (PresentValues(i).count < 2 \/ Cardinality(PresentValues(i).values) = 1) =>
                /\ Entry(i, i) = One
                /\ \A j \in ColumnIndices \ {i} : Entry(i, j) = Zero /\ Entry(j, i) = Zero

\* the numeric and flag columns of the input column list, in input order
NumericAndFlagColumns == SelectSeq(corrColumns, LAMBDA c : Includes(NUMERIC_COLUMNS, c) \/ StartsWithIs(c))

\* C11 as claimed: the returned column list is exactly the numeric and flag
\* columns of the input column list, in the same relative order as in the input
C11_ColumnsInInputOrder ==
    corrResult.computed => corrResult.columns = NumericAndFlagColumns

-----------------------------------------------------------------------------
(* covariance, pearsonCorrelation, linearRegression *)

Called(fn) == statResult # NotComputed /\ statResult.fn = fn

\* n = Math.min(x.length, y.length), the number of pairs
PairCount == IF Len(xs) < Len(ys) THEN Len(xs) ELSE Len(ys)

\* the values a list holds in the pairs
PairValues(x) == { x[i] : i \in 1 .. PairCount }

\* a list that is constant, no longer than the pairs, and whose running sums
\* are all numbers, so that its mean is its value
ConstantAndExact(x) ==
    /\ Len(x) = PairCount
    /\ Cardinality(PairValues(x)) = 1
    /\ \A k \in 1 .. Len(x) : FromInt(k * x[1]) = Rat(k * x[1], 1)

\* C12 as claimed: linearRegression returns slope 0 and intercept 0 whenever
\* there are fewer than 2 pairs or all x values are equal, whatever the y
C12_DegenerateRegressionIsZero ==
    (Called("linearRegression") /\ (PairCount < 2 \/ Cardinality(PairValues(xs)) = 1)) =>
        /\ statResult.line.slope = Zero
        /\ statResult.line.intercept = Zero

-----------------------------------------------------------------------------
(* computeLineSeries *)

\* the field is there, is not the empty string and is a number
HoldsNumber(row, col) ==
    HasCell(row, col) /\ row[col] # <<>> /\ ~Number(row[col]).nan

\* a record of the group with both year and metric present
QualifiesFor(row, group) ==
    /\ group = "All" \/ FlagIsTrue(row, group)
    /\ HoldsNumber(row, "Released_Year")
    /\ HoldsNumber(row, MetricKey(lineMetric))

QualifyingRows(group) == SelectSeq(lineRows, LAMBDA row : QualifiesFor(row, group))

\* C14 as claimed: no series in the output of computeLineSeries has an empty
\* point list; a group with no qualifying record, 'All' included, is absent
C14_NoEmptySeries ==
    lineSeries.computed =>
        \A k \in DOMAIN lineSeries.series : Len(lineSeries.series[k].values) > 0

\* C15 as claimed: each series has exactly one point per distinct year with
\* a qualifying record of its group (year and metric both present), in
\* strictly ascending year order, each value being the mean of the metric
\* over exactly those records
C15_OnePointPerQualifyingYear ==
    lineSeries.computed =>
        \A k \in DOMAIN lineSeries.series :
            /\ { lineSeries.series[k].values[i].year : i \in DOMAIN lineSeries.series[k].values }
                   = YearsIn(QualifyingRows(lineSeries.series[k].key))
            /\ Len(lineSeries.series[k].values)
                   = Cardinality(YearsIn(QualifyingRows(lineSeries.series[k].key)))
            /\ \A i \in DOMAIN lineSeries.series[k].values :
                 /\ i > 1 => lineSeries.series[k].values[i - 1].year
                                 < lineSeries.series[k].values[i].year
                 /\ lineSeries.series[k].values[i].value =
                        MeanOf(ValuesOfYear(QualifyingRows(lineSeries.series[k].key),
                                            MetricKey(lineMetric),
                                            lineSeries.series[k].values[i].year))

GapCalled(fn) == gapResult # NotComputed /\ gapResult.fn = fn

\* a record whose two ratings are both there: neither absent nor the empty string
BothRatingsPresent(row) ==
    /\ HasCell(row, "Meta_score") /\ row.Meta_score # <<>>
    /\ HasCell(row, "IMDB_Rating") /\ row.IMDB_Rating # <<>>

ContributingRows == SelectSeq(gapRows, BothRatingsPresent)

ContributingOf(genre) == SelectSeq(ContributingRows, LAMBDA row : genreOf(row) = genre)

\* C16: computeDisagreementByGenre emits one datum per category (first token of
\* the genre list) that has a record with both ratings present; its count is the
\* number of such records of the category and its meanGap the mean of their
\* gaps; a record with a missing rating (empty string included) is in no datum
C16_DatumPerCategoryOfPresentRatings ==
    GapCalled("byGenre") =>
        /\ { gapResult.data[i].genre : i \in DOMAIN gapResult.data }
             = { genreOf(ContributingRows[k]) : k \in DOMAIN ContributingRows }
        /\ \A i, j \in DOMAIN gapResult.data :
             gapResult.data[i].genre = gapResult.data[j].genre => i = j
        /\ \A i \in DOMAIN gapResult.data :
             /\ gapResult.data[i].count = Len(ContributingOf(gapResult.data[i].genre))
             /\ gapResult.data[i].count > 0 =>
                  gapResult.data[i].meanGap
                    = MeanOfNumbers([ k \in DOMAIN ContributingOf(gapResult.data[i].genre) |->
                                        gapOf(ContributingOf(gapResult.data[i].genre)[k]) ])

\* the rows of gapRows that computeDisagreementByYear puts under a year
RowsOfYear(year) ==
    SelectSeq(gapRows, LAMBDA row : RatingsAndYearPass(row) /\ YearOf(row) = year)

\* x - y and x + y without rounding
ExactDifference(x, y) == Rat(x.num * y.den - y.num * x.den, x.den * y.den)
ExactSum(x, y) == Rat(x.num * y.den + y.num * x.den, x.den * y.den)
Magnitude(x) == Rat(Abs(x.num), x.den)
AtMost(x, y) == x.num * y.den <= y.num * x.den

\* a and b differ by no more than 2^k roundings of a value of the given size
WithinRoundings(a, b, k, size) ==
    AtMost(Rat(Magnitude(ExactDifference(a, b)).num * Pow2(MantissaBits - k),
               Magnitude(ExactDifference(a, b)).den),
           size)

\* each datum aggregates the records of its year: count of them, and the
\* three means taken over those same records
OverTheSameRecords(d) ==
    /\ d.count = Len(RowsOfYear(d.year))
    /\ d.count > 0
    /\ d.meanMeta = MeanOfNumbers([ k \in DOMAIN RowsOfYear(d.year) |-> metaOf(RowsOfYear(d.year)[k]) ])
    /\ d.meanImdbRescaled
         = MeanOfNumbers([ k \in DOMAIN RowsOfYear(d.year) |-> imdbRescaledOf(RowsOfYear(d.year)[k]) ])
    /\ d.meanGap = MeanOfNumbers([ k \in DOMAIN RowsOfYear(d.year) |-> gapOf(RowsOfYear(d.year)[k]) ])

\* ascending year order, one datum per year that has a record
OneDatumPerYearAscending ==
    /\ \A i, j \in DOMAIN gapResult.data :
         i < j => gapResult.data[i].year < gapResult.data[j].year
    /\ { gapResult.data[i].year : i \in DOMAIN gapResult.data }
         = { YearOf(gapRows[k]) : k \in { k \in DOMAIN gapRows : RatingsAndYearPass(gapRows[k]) } }

\* C17 (as stated): in every datum of computeDisagreementByYear the midline
\* meanAvg is exactly halfway between meanMeta and meanImdbRescaled and meanGap
\* equals meanImdbRescaled - meanMeta; the three means are over the same count
\* records; the data are in ascending year order, one datum per year
C17_MidlineHalfwayGapIsDifference ==
    GapCalled("byYear") =>
        /\ OneDatumPerYearAscending
        /\ \A i \in DOMAIN gapResult.data :
             /\ OverTheSameRecords(gapResult.data[i])
             /\ ExactSum(gapResult.data[i].meanAvg, gapResult.data[i].meanAvg)
                  = ExactSum(gapResult.data[i].meanMeta, gapResult.data[i].meanImdbRescaled)
             /\ gapResult.data[i].meanGap
                  = ExactDifference(gapResult.data[i].meanImdbRescaled, gapResult.data[i].meanMeta)

\* C17 (amended): meanAvg is the floating-point (meanMeta + meanImdbRescaled) / 2,
\* hence halfway up to one rounding, and meanGap, the mean of the per-record
\* gaps, equals meanImdbRescaled - meanMeta up to rounding; the three means
\* are over the same count records; ascending year order, one datum per year
C17_MidlineAndGapUpToRounding ==
    GapCalled("byYear") =>
        /\ OneDatumPerYearAscending
        /\ \A i \in DOMAIN gapResult.data :
             /\ OverTheSameRecords(gapResult.data[i])
             /\ gapResult.data[i].meanAvg
                  = Midline(gapResult.data[i].meanMeta, gapResult.data[i].meanImdbRescaled)
             /\ WithinRoundings(
                  ExactSum(gapResult.data[i].meanAvg, gapResult.data[i].meanAvg),
                  ExactSum(gapResult.data[i].meanMeta, gapResult.data[i].meanImdbRescaled),
                  1,
                  ExactSum(gapResult.data[i].meanMeta, gapResult.data[i].meanImdbRescaled))
             /\ WithinRoundings(
                  gapResult.data[i].meanGap,
                  ExactDifference(gapResult.data[i].meanImdbRescaled, gapResult.data[i].meanMeta),
                  3,
                  ExactSum(gapResult.data[i].meanMeta, gapResult.data[i].meanImdbRescaled))

\* a year with two records whose mean gap is not the difference of the means
C17_Witness ==
    /\ GapCalled("byYear")
    /\ \E i \in DOMAIN gapResult.data :
         /\ gapResult.data[i].count = 2
         /\ gapResult.data[i].meanGap
              # ExactDifference(gapResult.data[i].meanImdbRescaled, gapResult.data[i].meanMeta)

\* C18: in the co-occurrence result every edge weight is at least the minimum
\* in force, every node is an endpoint of a surviving edge, and a node's total
\* is the sum of the weights of its surviving incident edges
C18_SurvivingEdgesAndTheirNodes ==
    /\ \A l \in starChordData.links : l.value >= effectiveMinConn
    /\ \A n \in starChordData.nodes :
         /\ \E l \in starChordData.links : l.source = n.name \/ l.target = n.name
         /\ n.total = SumOver({ l \in starChordData.links : l.source = n.name \/ l.target = n.name },
                              [ l \in starChordData.links |-> l.value ])
    /\ \A l \in starChordData.links :
         {l.source, l.target} \subseteq { n.name : n \in starChordData.nodes }

\* the minimum is 2: the pair A-B of weight 2 survives, the pairs of weight 1
\* are gone and add nothing to the totals of A and B
C18_Witness ==
    /\ effectiveMinConn = 2
    /\ starChordData.links # {}
    /\ \E n \in starChordData.nodes : n.total = 2
    /\ Cardinality(DOMAIN PairIds(ActiveRows(rows, starYearMin, starYearMax)))
         > Cardinality(starChordData.links)

\* the sum of f over S, without rounding
RECURSIVE ExactTotal(_, _)
ExactTotal(S, f) ==
    IF S = {} THEN Zero
    ELSE ExactSum(f[CHOOSE x \in S : TRUE],
                  ExactTotal(S \ {CHOOSE x \in S : TRUE}, f))

ExactProduct(x, y) == Rat(x.num * y.num, x.den * y.den)

\* what the chart lays out
ShownNodes == chordDataToShow.nodes
ShownLinks == chordDataToShow.links
ShownArcs == chordLayout(chordDataToShow).arcs
ShownEnds == chordLayout(chordDataToShow).ends

\* for every node the sub-intervals of its incident edges sum to its arc,
\* and arcs are proportional to the node totals (both up to rounding)
ArcsSplitAndProportional ==
    /\ \A n \in ShownNodes :
         WithinRoundings(
             ExactTotal(IncidentLinks(ShownLinks, n.name), ShownEnds),
             ShownArcs[n], 2, ShownArcs[n])
    /\ \A n, m \in ShownNodes :
         WithinRoundings(
             ExactProduct(ShownArcs[n], FromInt(m.total)),
             ExactProduct(ShownArcs[m], FromInt(n.total)),
             2, ExactProduct(ShownArcs[n], FromInt(m.total)))

\* the arcs and the padding fill the circle (up to rounding)
ArcsAndPaddingFillCircle ==
    WithinRoundings(
        ExactSum(ExactTotal(ShownNodes, ShownArcs), PaddingOf(ShownNodes)),
        FullCircle, 2, FullCircle)

\* C19 (as stated): in the chord layout the sub-intervals of a node's incident
\* edges sum to the node's arc, arcs are proportional to node totals, and the
\* arcs plus the padding between them sum to the full circle
C19_ArcsFillCircle == ArcsSplitAndProportional /\ ArcsAndPaddingFillCircle

\* C19 (amended): the same for a diagram with at least one node; a diagram
\* with no node has no arc and no padding
C19_ArcsFillCircleUnlessEmpty ==
    /\ ArcsSplitAndProportional
    /\ ShownNodes # {} => ArcsAndPaddingFillCircle
    /\ ShownNodes = {} => ShownArcs = <<>> /\ ShownEnds = <<>>

\* three arcs of different weight, one of them with two incident edges
C19_Witness ==
    /\ Cardinality(ShownNodes) = 3
    /\ \E n, m \in ShownNodes : n.total # m.total
    /\ \E n \in ShownNodes : Cardinality(IncidentLinks(ShownLinks, n.name)) = 2

IsNaNNumber(r) == r.num = 0 /\ r.den = 0

CorrelationHasNoNaN ==
    corrResult.computed =>
        \A i \in ColumnIndices : \A j \in ColumnIndices : ~IsNaNNumber(Entry(i, j))

LineSeriesHasNoNaN ==
    lineSeries.computed =>
        \A k \in DOMAIN lineSeries.series :
            \A p \in DOMAIN lineSeries.series[k].values :
                ~IsNaNNumber(lineSeries.series[k].values[p].value)

DisagreementHasNoNaN ==
    /\ GapCalled("byGenre") =>
         \A i \in DOMAIN gapResult.data : ~IsNaNNumber(gapResult.data[i].meanGap)
    /\ GapCalled("byYear") =>
         \A i \in DOMAIN gapResult.data :
             /\ ~IsNaNNumber(gapResult.data[i].meanGap)
             /\ ~IsNaNNumber(gapResult.data[i].meanMeta)
             /\ ~IsNaNNumber(gapResult.data[i].meanImdbRescaled)
             /\ ~IsNaNNumber(gapResult.data[i].meanAvg)

\* for the empty record list: no series, no category datum, no year datum
EmptyForNoRecords ==
    /\ lineSeries.computed /\ lineRows = <<>> => lineSeries.series = <<>>
    /\ gapResult # NotComputed /\ gapRows = <<>> => gapResult.data = <<>>

\* C20: every aggregation function returns a result with no NaN numeric
\* field for any record list, and for the empty record list a result with no
\* series, no category datum and no year datum
C20_TotalAndEmptyForNoRecords ==
    /\ CorrelationHasNoNaN
    /\ LineSeriesHasNoNaN
    /\ DisagreementHasNoNaN
    /\ EmptyForNoRecords

\* C23: the records the poster panel shows as the active subset are among the
\* records that survive the current filter, also while a selection made under
\* an earlier filter is held
C23_ActiveWithinFilterSurviving ==
    filteredMovieIds
        \subseteq { starChordData.allFilteredMovieIds[k] :
                      k \in DOMAIN starChordData.allFilteredMovieIds }

\* the threshold lies within the range of the counts, and once no clamp is
\* due the slider state is the threshold
ThresholdWithinRange ==
    connMin <= connMax =>
        /\ connMin <= effectiveMinConn /\ effectiveMinConn <= connMax
        /\ ~clampPending => starMinConnectionSize = effectiveMinConn

\* the one update of the clamping effect: the slider state becomes the
\* threshold in force, which stays what it was, and no further clamp is due
ClampSettles ==
    lastOp'.op = "clamp" =>
        /\ clampPending
        /\ starMinConnectionSize' = effectiveMinConn
        /\ effectiveMinConn' = effectiveMinConn
        /\ starChordData' = starChordData
        /\ ~clampPending'

\* C24: the threshold passed to the co-occurrence computation lies in
\* [connMin, connMax] whenever connMin <= connMax, whatever the slider state
\* holds; after a change the clamping effect brings the slider state to that
\* threshold in one update and then makes no more updates
C24_ThresholdClampedAndSettles == []ThresholdWithinRange /\ [][ClampSettles]_vars

\* the clamp has just run: a slider value of 2 was brought down to 1
C24_Witness ==
    /\ lastOp.op = "clamp"
    /\ starMinConnectionSize = 1
    /\ connMax = 1

SelectionOps == {"selectEdge", "selectRecord", "clear"}
FilterOps == {"yearMin", "yearMax", "minConnection", "clamp", "sort"}

\* C25: a ribbon click, a movie click and the clear button leave the year
\* range, the min-connection value and the sort order unchanged; a change of
\* the year range, the min-connection value or the sort order leaves the
\* selection unchanged
C25_SelectionAndFiltersApart ==
    [][ /\ lastOp'.op \in SelectionOps =>
             UNCHANGED <<starYearMin, starYearMax, starMinConnectionSize, posterSortBy>>
        /\ lastOp'.op \in FilterOps =>
             UNCHANGED <<selectedConnection, selectedMovie>> ]_vars

\* a year change has just happened while a record was selected, and it still is
C25_Witness ==
    /\ lastOp.op = "yearMin"
    /\ preSel.movie # Null
    /\ selectedMovie = preSel.movie
    /\ starYearMin # 2000

\* the number of times a record is listed
TimesListed(m) == Cardinality({ i \in DOMAIN sorted : sorted[i] = m })

\* C28: the poster panel lists every filter-surviving record exactly once,
\* every record of the active subset before every record outside it, each of
\* the two parts in the order of the selected comparator, and reports as the
\* movie count the number of active-subset records listed
C28_ActiveFirstEachPartOrdered ==
    /\ Len(sorted) = Len(allMoviesForPanel)
    /\ \A k \in DOMAIN allMoviesForPanel : TimesListed(allMoviesForPanel[k]) = 1
    /\ \A i, j \in DOMAIN sorted :
         i < j =>
           /\ IsActiveMovie(sorted[j]) => IsActiveMovie(sorted[i])
           /\ IsActiveMovie(sorted[i]) = IsActiveMovie(sorted[j]) =>
                cmpMovie(posterSortBy, sorted[i], sorted[j]) <= 0
    /\ statsCount = Cardinality({ i \in DOMAIN sorted : IsActiveMovie(sorted[i]) })

\* an active record is listed first although the comparator alone would put
\* a record outside the active subset before it
C28_Witness ==
    /\ Len(sorted) >= 3
    /\ statsCount \in 1 .. Len(sorted) - 1
    /\ \E j \in DOMAIN sorted :
         ~IsActiveMovie(sorted[j]) /\ cmpMovie(posterSortBy, sorted[j], sorted[1]) < 0

NumericColumnNames == {"Runtime", "IMDB_Rating", "Meta_score", "No_of_Votes", "Gross"}

\* the numeric columns among the columns asked for
NumericColumnsAsked ==
    { colColumns[i] : i \in DOMAIN colColumns } \cap NumericColumnNames

\* the column has no value in any record: absent, empty or blank
EntirelyMissing(name) ==
    \A k \in DOMAIN colRows : ~HasCell(colRows[k], name) \/ Trim(colRows[k][name]) = <<>>

IsNumericSummary(summary) == "numeric" \in DOMAIN summary

\* C21: for a numeric column in which every record's value is missing,
\* computeColumnStats returns a summary of the shape of a populated numeric
\* column, reporting a non-missing count of 0
C21_MissingColumnHasNumericSummary ==
    colStats.computed =>
        \A name \in NumericColumnsAsked :
            EntirelyMissing(name) =>
                \E j \in DOMAIN colStats.stats :
                    /\ colStats.stats[j].name = name
                    /\ IsNumericSummary(colStats.stats[j])
                    /\ colStats.stats[j].numeric.count = 0

\* C27: in every numeric column summary the non-missing count plus the
\* missing count is the number of records, for any mix of present, empty
\* and malformed values
C27_CountPlusMissingIsRecords ==
    colStats.computed =>
        \A i \in DOMAIN colStats.stats :
            IsNumericSummary(colStats.stats[i]) =>
                colStats.stats[i].numeric.count + colStats.stats[i].numeric.missing
                    = Len(colRows)

\* the genre field of a record is absent or empty
GenreMissing(row) == ~HasCell(row, "Genre") \/ row.Genre = <<>>

\* C29: a record whose genre field is absent or empty is assigned the
\* category 'Other', and no emitted datum has an empty category name
C29_MissingGenreIsOther ==
    GapCalled("byGenre") =>
        /\ \A i \in DOMAIN gapResult.data : gapResult.data[i].genre # <<>>
        /\ \A k \in DOMAIN gapRows :
             RatingsPass(gapRows[k]) /\ GenreMissing(gapRows[k]) =>
                 \E i \in DOMAIN gapResult.data :
                     gapResult.data[i].genre = <<"O", "t", "h", "e", "r">>

\* C26: after any sequence of toggles the series lines in the line chart are
\* exactly the series whose key is in the visible set; nothing is drawn when
\* no series is visible
C26_DrawnIsVisible ==
    { svgPaths[i] : i \in DOMAIN svgPaths } = lineVisible \cap SeriesKeys(tabLineSeries)

\* C30: in by-year mode the year that filters the points and the year in the
\* label are the year at which the slider stands, a year within the range of
\* the data; the three scatter modes are mutually exclusive
C30_ByYearFollowsSlider ==
    /\ ~(scatterShowAllMovies /\ scatterUseTimeline)
    /\ isByYear /\ sliderRendered =>
         /\ selectedYear.val = sliderValue
         /\ sliderLabel = sliderValue
         /\ scatterYears[1] <= sliderValue
         /\ sliderValue <= scatterYears[Len(scatterYears)]

\* C22: the tooltip of a chart is hidden right after each pointer-leave of
\* that chart and only a pointer-enter or pointer-move of the chart shows it
\* again; delivering the same pointer-move a second time changes nothing
HiddenAfterLeave ==
    /\ tipEvent = [chart |-> "line", type |-> "pointerleave"] => lineTip.display = "none"
    /\ tipEvent = [chart |-> "scatter", type |-> "pointerleave"] => scatterTip.display = "none"

SameMoveTwiceIsOnce ==
    /\ \A px \in PlotPixels :
         pointermoved(pointermoved(lineTip, px), px) = pointermoved(lineTip, px)
    /\ \A mx \in {0, 1}, my \in {0, 1}, i \in DOMAIN displayPoints :
         circleMoved(circleMoved(scatterTip, mx, my, displayPoints[i]), mx, my, displayPoints[i])
           = circleMoved(scatterTip, mx, my, displayPoints[i])

ShownOnlyByEnterOrMove ==
    /\ lineTip.display = "none" /\ lineTip'.display # "none" =>
         tipEvent'.chart = "line" /\ tipEvent'.type \in PointerTypes
    /\ scatterTip.display = "none" /\ scatterTip'.display # "none" =>
         tipEvent'.chart = "scatter" /\ tipEvent'.type \in PointerTypes

=============================================================================
